---- MODULE Spec2Model ----
(***************************************************************************)
(* Model of the matching-simulation engine of medical_internship:          *)
(*   utils.py  generate_interns_data      (the preference sampler)         *)
(*   utils.py  match_interns_to_hospitals (deferred acceptance)            *)
(*   utils.py  simulate_single_intern_match, run_simulation (the driver)   *)
(*   api.py    run_simulation             (method 'dfa' / 'rsd')           *)
(*   rsd.py    run_single_rsd, calculate_rsd_probabilities                 *)
(*   probability_trading.py  trade_probabilities                           *)
(*   simulation_component.py  the worker thread and the stop button        *)
(*                                                                         *)
(* A DataFrame is a sequence of rows; a row of a cohort is a record        *)
(* [index |-> label, row |-> list of hospital names].  Python positions    *)
(* are 0-based; a TLA+ sequence is 1-based, so list position p of the code *)
(* is element p + 1 of the sequence.  Random draws are nondeterministic    *)
(* choices over the outcomes that have positive probability.               *)
(***************************************************************************)
EXTENDS Integers, Sequences, FiniteSets, TLC

VARIABLES
    entry,                  \* the function that was called:
                            \* "sampler", "match", "run", "rsd"
    pc,                     \* position in the code
    error,                  \* the exception that ended the call, or "none"
    \* run_simulation's arguments and locals
    priorities_df,          \* [names, ncols, counts]: the year's priority table
    hospital_capacities,    \* hospital name -> capacity
    intern_data,            \* the real candidate's list
    n_permutations,         \* number of trials M
    method,                 \* "dfa" or "rsd"
    i,                      \* trials completed so far
    hospitals_drew,         \* the real candidate's hospital of each completed trial
    intern_probabilities,   \* api.py 67: the real candidate's row of each trial
    percentages,            \* the returned Series: entries [hospital, numerator]
    \* generate_interns_data's locals
    n_interns,
    all_priorities,
    priorities,
    available_indices,
    priority_idx,
    simulated_interns,      \* the returned DataFrame
    \* the cohort and match_interns_to_hospitals's locals
    all_interns,
    unmatched_interns,
    unmatched_list,         \* the part of the shuffled list not yet visited
    new_unmatched,
    current_matches,        \* hospital -> set of <<intern, priority>>
    intern_current_priority,
    matches,                \* the returned DataFrame: intern -> [Hospital, Priority]
    n_proposals,            \* history: proposals made in this run of the matcher
    \* the caller of run_simulation
    progress_callback,      \* TRUE when a progress callback is supplied
    progress,               \* the fractions the callback was called with
    stop_clicks,            \* n_clicks of the dashboard's stop button
    earlier_result,         \* the result of an earlier run on the same arguments
    \* calculate_rsd_probabilities's, run_single_rsd's and trade_probabilities's
    \* locals
    n_simulated,            \* iterations of rsd.py 69 completed
    student_indices,        \* the shuffled order of the last iteration
    assignments,            \* the assignments of the last iteration
    probability_counts,     \* intern -> hospital -> count
    hospital_probs,         \* the returned RSD matrix, numerators over n_simulations
    optimized_probabilities,\* the trader's solution, numerators over ProbScale
    \* the dashboard (simulation_component.py): its components and globals
    hospital_items,         \* children of the hospital-item components: labels
    active,                 \* their 'active' properties
    up_disabled,            \* 'disabled' of move-up-btn
    down_disabled,          \* 'disabled' of move-down-btn
    progress_queue,         \* the global Queue: [status, data, run]; `run` is
                            \* history: the run whose worker put the message
    current_progress,       \* the global dict: [value, run]
    interval_disabled,      \* 'disabled' of progress-interval
    run_disabled,           \* 'disabled' of run-simulation-btn
    results_store,          \* 'data' of simulation-results-store: [status, run]
    run_clicks,             \* n_clicks of run-simulation-btn
    threads,                \* run -> [pc, i, hospital_order]: start_simulation
                            \* and the worker thread it starts
    \* the Streamlit page (app.py): st.session_state
    sim_hospitals,          \* the ranked list of site names
    sim_selected            \* the name of the selected site

cfgvars == <<priorities_df, hospital_capacities, intern_data, n_permutations, method>>
runvars == <<i, hospitals_drew, intern_probabilities, percentages>>
gidvars == <<n_interns, all_priorities, priorities, available_indices, priority_idx,
             simulated_interns>>
mvars   == <<unmatched_interns, unmatched_list, new_unmatched, current_matches,
             intern_current_priority, matches, n_proposals>>
envvars == <<progress_callback, progress, stop_clicks, earlier_result>>
rsdvars == <<n_simulated, student_indices, assignments, probability_counts,
             hospital_probs, optimized_probabilities>>
dashvars == <<hospital_items, active, up_disabled, down_disabled, progress_queue,
              current_progress, interval_disabled, run_disabled, results_store,
              run_clicks, threads>>
enginevars == <<pc, error, cfgvars, runvars, gidvars, all_interns, mvars,
                envvars, rsdvars>>
simvars == <<sim_hospitals, sim_selected>>
vars    == <<entry, pc, error, cfgvars, runvars, gidvars, all_interns, mvars,
             envvars, rsdvars, dashvars, simvars>>

----------------------------------------------------------------------------
(* Bounds of the model *)

MaxRanks == 3
MaxPeers == 2
MaxInterns == 2
MaxInternsFew == 3
MaxCap == 2
MaxTrials == 2
RunMaxRanks == 2
RunMaxCap == 1
ProbScale == 2
MaxClicks == 1

\* MaxRanks:      rank columns of a priority table given to the sampler
\* MaxPeers:      n_interns, when the sampler is called on its own
\* MaxInterns:    rows of a cohort over all of Hospitals given to the matcher
\* MaxInternsFew: rows of a cohort over fewer hospitals given to the matcher
\* MaxCap:        largest capacity of one hospital given to the matcher
\* MaxTrials:     n_permutations
\* RunMaxRanks:   rank columns of a table, for a whole run of the driver
\* RunMaxCap:     largest capacity of one hospital, for a whole run
\* ProbScale:     a probability of the trader is a multiple of 1 / ProbScale
\* MaxClicks:     clicks of the stop button during a run

Hospitals    == <<"A", "B", "C">>   \* the hospital names a table may hold
RunHospitals == <<"A", "B">>        \* the same, for a whole run of the driver

\* the counts of a priority table: the sampler's choices depend only on which
\* counts are positive
Counts == {0, 1}

----------------------------------------------------------------------------
(* Helpers *)

Range(s) == {s[k] : k \in DOMAIN s}

RECURSIVE SumOver(_, _)
SumOver(S, f) ==
    IF S = {} THEN 0
    ELSE LET x == CHOOSE y \in S : TRUE IN f[x] + SumOver(S \ {x}, f)

\* list.pop(k) for a 1-based position k
RemoveAt(s, k) == SubSeq(s, 1, k - 1) \o SubSeq(s, k + 1, Len(s))

Permutations_(S) ==
    {p \in [1..Cardinality(S) -> S] : \A a, b \in DOMAIN p : a # b => p[a] # p[b]}

\* the tables a year may have: n hospitals, r rank columns, counts[h][r]
Tables(hospitals, maxRanks) ==
    UNION {UNION {
        { [names |-> SubSeq(hospitals, 1, n), ncols |-> r, counts |-> c] :
            c \in [1..n -> [1..r -> Counts]] }
        : r \in 1..maxRanks} : n \in 1..Len(hospitals)}

hospital_names == priorities_df.names
n_hospitals    == Len(priorities_df.names)
n_priorities   == priorities_df.ncols

NoCohort  == <<>>
NoMatches == [x \in {} |-> 0]

----------------------------------------------------------------------------
(* generate_interns_data, utils.py 60-125 *)

\* column `col` (0-based) of the table has a positive total (utils.py 86-87)
ColumnTotalPositive(col) ==
    \E h \in 1..n_hospitals : priorities_df.counts[h][col + 1] > 0

\* every entry of a column counts as positive
BaseProbAlways(col, h) == TRUE

\* utils.py 85-91: the entry of prob_matrices[col] for hospital index h is positive
BaseProbPositive(col, h) ==
    IF ColumnTotalPositive(col)
    THEN priorities_df.counts[h][col + 1] > 0
    ELSE TRUE                      \* np.ones(n_hospitals) / n_hospitals

\* the counts are ignored: every available hospital can be drawn
AnyAvailable(col, avail) == 1..Len(avail)

\* utils.py 105-113: the positions of available_indices that np.random.choice can
\* return: those of positive probability after the renormalisation, or all of
\* them when the mass on the available hospitals is zero
DrawSupport(col, avail) ==
    LET positive == {k \in 1..Len(avail) : BaseProbPositive(col, avail[k])}
    IN  IF positive # {} THEN positive ELSE 1..Len(avail)

\* utils.py 95-97: the next intern's list is started
GidNextIntern ==
    /\ pc = "gid_interns"
    /\ Len(all_priorities) < n_interns
    /\ priorities' = <<>>
    /\ available_indices' = [k \in 1..n_hospitals |-> k]
    /\ priority_idx' = 0
    /\ pc' = "gid_columns"
    /\ UNCHANGED <<entry, dashvars, simvars, envvars, rsdvars, error, cfgvars, runvars, n_interns, all_priorities,
                   simulated_interns, all_interns, mvars>>

\* utils.py 100-115: one iteration of the loop over the rank columns
GidDraw ==
    /\ pc = "gid_columns"
    /\ priority_idx < n_priorities
    /\ available_indices # <<>>
    /\ \E selected_idx \in DrawSupport(priority_idx, available_indices) :
          /\ priorities' =
                Append(priorities, hospital_names[available_indices[selected_idx]])
          /\ available_indices' = RemoveAt(available_indices, selected_idx)
    /\ priority_idx' = priority_idx + 1
    /\ UNCHANGED <<entry, dashvars, simvars, envvars, rsdvars, pc, error, cfgvars, runvars, n_interns, all_priorities,
                   simulated_interns, all_interns, mvars>>

\* utils.py 100-102: the loop over the columns ends (exhausted, or the break)
GidColumnsDone ==
    /\ pc = "gid_columns"
    /\ priority_idx >= n_priorities \/ available_indices = <<>>
    /\ pc' = "gid_remaining"
    /\ UNCHANGED <<entry, dashvars, simvars, envvars, rsdvars, error, cfgvars, runvars, gidvars, all_interns, mvars>>

\* utils.py 118-121: one iteration of "add any remaining hospitals randomly"
GidRemaining ==
    /\ pc = "gid_remaining"
    /\ available_indices # <<>>
    /\ \E selected_idx \in 1..Len(available_indices) :
          /\ priorities' =
                Append(priorities, hospital_names[available_indices[selected_idx]])
          /\ available_indices' = RemoveAt(available_indices, selected_idx)
    /\ UNCHANGED <<entry, dashvars, simvars, envvars, rsdvars, pc, error, cfgvars, runvars, n_interns, all_priorities,
                   priority_idx, simulated_interns, all_interns, mvars>>

\* utils.py 123: all_priorities.append(priorities)
GidAppend ==
    /\ pc = "gid_remaining"
    /\ available_indices = <<>>
    /\ all_priorities' = Append(all_priorities, priorities)
    /\ pc' = "gid_interns"
    /\ UNCHANGED <<entry, dashvars, simvars, envvars, rsdvars, error, cfgvars, runvars, n_interns, priorities,
                   available_indices, priority_idx, simulated_interns, all_interns,
                   mvars>>

\* pd.DataFrame(rows, columns=cols) raises ValueError when a row's length differs
\* from the number of columns
DataFrameFits(rows, ncols) == \A k \in DOMAIN rows : Len(rows[k]) = ncols

\* pd.DataFrame(rows): the default index 0, 1, ...
DataFrame(rows) == [k \in DOMAIN rows |-> [index |-> k - 1, row |-> rows[k]]]

\* where generate_interns_data returns to
GidReturnsTo == IF entry = "sampler" THEN "done" ELSE "concat"

\* utils.py 125: return pd.DataFrame(all_priorities, columns=priority_cols)
GidReturn ==
    /\ pc = "gid_interns"
    /\ Len(all_priorities) >= n_interns
    /\ IF DataFrameFits(all_priorities, n_priorities)
       THEN /\ simulated_interns' = DataFrame(all_priorities)
            /\ pc' = GidReturnsTo
            /\ error' = error
       ELSE /\ simulated_interns' = simulated_interns
            /\ pc' = "error"
            /\ error' = "ValueError"
    /\ UNCHANGED <<entry, dashvars, simvars, envvars, rsdvars, cfgvars, runvars, n_interns, all_priorities, priorities,
                   available_indices, priority_idx, all_interns, mvars>>

GenerateInternsData ==
    \/ GidNextIntern
    \/ GidDraw
    \/ GidColumnsDone
    \/ GidRemaining
    \/ GidAppend
    \/ GidReturn

----------------------------------------------------------------------------
(* match_interns_to_hospitals, utils.py 159-252 *)

\* interns_data.shape[1]
NumColumns == IF all_interns = <<>> THEN 0 ELSE Len(all_interns[1].row)

\* interns_data.iloc[intern, priority]: positional, both 0-based
Iloc(intern, priority) == all_interns[intern + 1].row[priority + 1]

\* set(interns_data.index)
IndexSet(df) == {df[k].index : k \in DOMAIN df}

\* the cursor is left where it was
NextPrioritySame(priority) == priority

\* utils.py 195: intern_current_priority[intern] += 1
NextPriority(priority) == priority + 1

\* the comparison lets one intern too many stay
OverCapacityOffByOne(hospital, held) ==
    Cardinality(held) > hospital_capacities[hospital] + 1

\* utils.py 201: the hospital holds more interns than its capacity
OverCapacity(hospital, held) == Cardinality(held) > hospital_capacities[hospital]

\* utils.py 203-207: priority_groups.keys() and priority_groups[prio]
GroupKeys(held) == {m[2] : m \in held}
PriorityGroup(held, prio) == {m[1] : m \in {x \in held : x[2] = prio}}

\* the groups are visited from the largest key
LastKey(keys) == CHOOSE p \in keys : \A q \in keys : p >= q

\* utils.py 213: sorted(priority_groups.keys()) is visited from its smallest key
FirstKey(keys) == CHOOSE p \in keys : \A q \in keys : p <= q

\* the interns with the smallest indices are kept
LotteryLowestIndex(interns_at_priority, size) ==
    {S \in SUBSET interns_at_priority :
        /\ Cardinality(S) = size
        /\ \A a \in S : \A b \in interns_at_priority \ S : a < b}

\* one intern is kept even when no place is left
LotteryKeepsOne(interns_at_priority, size) ==
    {S \in SUBSET interns_at_priority :
        Cardinality(S) = IF size = 0 THEN 1 ELSE size}

\* utils.py 221-225: np.random.choice(interns_at_priority, size, replace=False)
Lottery(interns_at_priority, size) ==
    {S \in SUBSET interns_at_priority : Cardinality(S) = size}

\* utils.py 217, 226: accepted.extend((intern_id, priority) for intern_id in ...)
AcceptedPairs(interns, priority) == {<<intern_id, priority>> : intern_id \in interns}

\* utils.py 210-233: the acceptance loop over the rank groups.  The result is the
\* set of its possible outcomes: the accepted pairs, the interns the lottery left
\* out, and the value the loop variable `priority` is left with.
RECURSIVE AcceptLoop(_, _, _, _, _)
AcceptLoop(held, keys, remaining_capacity, accepted, last) ==
    IF keys = {}
    THEN {[accepted |-> accepted, unselected |-> {}, priority |-> last]}
    ELSE LET priority == FirstKey(keys)
             interns_at_priority == PriorityGroup(held, priority)
         IN  IF Cardinality(interns_at_priority) <= remaining_capacity
             THEN LET acc == accepted \cup AcceptedPairs(interns_at_priority, priority)
                      rem == remaining_capacity - Cardinality(interns_at_priority)
                  IN  IF rem = 0
                      THEN {[accepted |-> acc, unselected |-> {},
                             priority |-> priority]}
                      ELSE AcceptLoop(held, keys \ {priority}, rem, acc, priority)
             ELSE {[accepted |-> accepted \cup AcceptedPairs(selected_interns, priority),
                    unselected |-> interns_at_priority \ selected_interns,
                    priority |-> priority] :
                      selected_interns \in
                          Lottery(interns_at_priority, remaining_capacity)}

\* the holders of the groups that were not reached are forgotten
WorseGroupsDropped(held, priority) == {}

\* utils.py 237-239: the holders of the groups after the one the loop stopped at
WorseGroups(held, priority) == {m[1] : m \in {x \in held : x[2] > priority}}

\* utils.py 182-186: a round starts; the shuffled order is chosen as it is visited
MatchRound ==
    /\ pc = "m_while"
    /\ unmatched_interns # {}
    /\ unmatched_list' = unmatched_interns
    /\ new_unmatched' = {}
    /\ pc' = "m_for"
    /\ UNCHANGED <<entry, dashvars, simvars, envvars, rsdvars, error, cfgvars, runvars, gidvars, all_interns,
                   unmatched_interns, current_matches, intern_current_priority,
                   matches, n_proposals>>

\* utils.py 190-192: an intern that has exhausted the list is skipped
MatchSkip ==
    /\ pc = "m_for"
    /\ \E intern \in unmatched_list :
          /\ intern_current_priority[intern] >= NumColumns
          /\ unmatched_list' = unmatched_list \ {intern}
    /\ UNCHANGED <<entry, dashvars, simvars, envvars, rsdvars, pc, error, cfgvars, runvars, gidvars, all_interns,
                   unmatched_interns, new_unmatched, current_matches,
                   intern_current_priority, matches, n_proposals>>

\* utils.py 190-239: the body of the for loop for an intern with a hospital
\* left to propose to, as the set of its possible results.  The hospital is
\* resolved at once when the proposal puts it over capacity.
Proposal(intern, matched, rejected, cursor) ==
    LET priority == cursor[intern]
        hospital == Iloc(intern, priority)
        held     == matched[hospital] \cup {<<intern, priority>>}
        moved    == [cursor EXCEPT ![intern] = NextPriority(priority)]
    IN  IF OverCapacity(hospital, held)
        THEN {[current_matches |-> [matched EXCEPT ![hospital] = out.accepted],
               new_unmatched |-> rejected \cup out.unselected
                                    \cup WorseGroups(held, out.priority),
               intern_current_priority |-> moved] :
                 out \in AcceptLoop(held, GroupKeys(held),
                                    hospital_capacities[hospital], {}, priority)}
        ELSE {[current_matches |-> [matched EXCEPT ![hospital] = held],
               new_unmatched |-> rejected,
               intern_current_priority |-> moved]}

\* utils.py 188-239: one intern proposes
MatchPropose ==
    /\ pc = "m_for"
    /\ \E intern \in unmatched_list :
          /\ intern_current_priority[intern] < NumColumns
          /\ \E out \in Proposal(intern, current_matches, new_unmatched,
                                  intern_current_priority) :
                /\ current_matches' = out.current_matches
                /\ new_unmatched' = out.new_unmatched
                /\ intern_current_priority' = out.intern_current_priority
          /\ unmatched_list' = unmatched_list \ {intern}
    /\ n_proposals' = n_proposals + 1
    /\ UNCHANGED <<entry, dashvars, simvars, envvars, rsdvars, pc, error, cfgvars, runvars, gidvars, all_interns,
                   unmatched_interns, matches>>

\* utils.py 188-239: the whole for loop over the shuffled list, as the set of
\* its possible results over every order and every lottery
RECURSIVE ForLoop(_, _, _, _)
ForLoop(list, matched, rejected, cursor) ==
    IF list = {}
    THEN {[current_matches |-> matched, new_unmatched |-> rejected,
           intern_current_priority |-> cursor]}
    ELSE UNION {
            IF cursor[intern] >= NumColumns
            THEN ForLoop(list \ {intern}, matched, rejected, cursor)
            ELSE UNION {ForLoop(list \ {intern}, out.current_matches,
                                out.new_unmatched, out.intern_current_priority) :
                           out \in Proposal(intern, matched, rejected, cursor)}
            : intern \in list}

\* utils.py 241: unmatched_interns = new_unmatched
MatchEndRound ==
    /\ pc = "m_for"
    /\ unmatched_list = {}
    /\ unmatched_interns' = new_unmatched
    /\ pc' = "m_while"
    /\ UNCHANGED <<entry, dashvars, simvars, envvars, rsdvars, error, cfgvars, runvars, gidvars, all_interns,
                   unmatched_list, new_unmatched, current_matches,
                   intern_current_priority, matches, n_proposals>>

PositionOf(hospital) == CHOOSE k \in 1..Len(Hospitals) : Hospitals[k] = hospital

\* the hospitals whose list holds the intern
HeldAt(intern) ==
    {h \in DOMAIN current_matches : \E m \in current_matches[h] : m[1] = intern}

\* the 0-based priority is reported
ZeroBased(priority) == priority

\* utils.py 247: intern_priorities[intern] = priority + 1
OneBased(priority) == priority + 1

\* utils.py 243-252: the final DataFrame; the dictionary is filled hospital by
\* hospital in the order of the capacity table, so a later hospital overwrites
FinalMatches ==
    LET held == {x \in IndexSet(all_interns) : HeldAt(x) # {}}
        last(x) == CHOOSE h \in HeldAt(x) :
                      \A g \in HeldAt(x) : PositionOf(g) <= PositionOf(h)
        prio(x) == (CHOOSE m \in current_matches[last(x)] : m[1] = x)[2]
    IN  [x \in held |-> [Hospital |-> last(x), Priority |-> OneBased(prio(x))]]

\* where match_interns_to_hospitals returns to
MatchReturnsTo == IF entry = "match" THEN "done" ELSE "loc"

MatchReturn ==
    /\ pc = "m_while"
    /\ unmatched_interns = {}
    /\ matches' = FinalMatches
    /\ pc' = MatchReturnsTo
    /\ UNCHANGED <<entry, dashvars, simvars, envvars, rsdvars, error, cfgvars, runvars, gidvars, all_interns,
                   unmatched_interns, unmatched_list, new_unmatched, current_matches,
                   intern_current_priority, n_proposals>>

MatchInternsToHospitals ==
    \/ MatchRound
    \/ MatchSkip
    \/ MatchPropose
    \/ MatchEndRound
    \/ MatchReturn

----------------------------------------------------------------------------
(* run_simulation and simulate_single_intern_match,
   utils.py 254-345 and api.py 8-90 *)

\* utils.py 147-157: get_total_capacity
total_capacity == SumOver(DOMAIN hospital_capacities, hospital_capacities)

\* utils.py 319: all_hospitals = priorities_df.iloc[:, 0].values
all_hospitals == priorities_df.names

\* utils.py 270, api.py 69: the number of peers asked of the sampler
PeersWanted == total_capacity - 1

\* api.py 69: the RSD path calls generate_interns_data(priorities_df,
\* total_capacity - 1, seed=i); utils.py 60 defines generate_interns_data(df,
\* n_interns), so the call raises TypeError for the unexpected keyword
SamplerCallFits == method = "dfa"

\* utils.py 323-324 and 270, api.py 44-45 and 68-69: a trial starts with the call
\* of generate_interns_data for total_capacity - 1 peers
RunStartTrial ==
    /\ pc = "run_loop"
    /\ i < n_permutations
    /\ IF SamplerCallFits
       THEN /\ n_interns' = PeersWanted
            /\ pc' = "gid_interns"
            /\ error' = error
       ELSE /\ n_interns' = n_interns
            /\ pc' = "error"
            /\ error' = "TypeError"
    /\ all_priorities' = <<>>
    /\ priorities' = <<>>
    /\ available_indices' = <<>>
    /\ priority_idx' = 0
    /\ simulated_interns' = NoCohort
    /\ UNCHANGED <<entry, dashvars, simvars, envvars, rsdvars, cfgvars, runvars, all_interns, mvars>>

\* utils.py 271, api.py 70: simulated_interns.index = simulated_interns.index + 1
ShiftIndex(df) == [k \in DOMAIN df |-> [index |-> df[k].index + 1, row |-> df[k].row]]

\* utils.py 274-278, api.py 73-77: pd.concat([the real candidate's row, peers])
Concat(real, peers) == DataFrame(<<real>>) \o peers

\* utils.py 271-281: the cohort is built and the matcher is called on it
\* (utils.py 172-179 set up its locals)
BuildCohort ==
    /\ pc = "concat"
    /\ IF Len(intern_data) = n_priorities
       THEN LET cohort == Concat(intern_data, ShiftIndex(simulated_interns))
            IN  /\ all_interns' = cohort
                /\ unmatched_interns' = IndexSet(cohort)
                /\ current_matches' = [h \in DOMAIN hospital_capacities |-> {}]
                /\ intern_current_priority' = [x \in IndexSet(cohort) |-> 0]
                /\ pc' = "m_while"
                /\ error' = error
       ELSE /\ pc' = "error"
            /\ error' = "ValueError"
            /\ UNCHANGED <<all_interns, unmatched_interns, current_matches,
                           intern_current_priority>>
    /\ unmatched_list' = {}
    /\ new_unmatched' = {}
    /\ matches' = NoMatches
    /\ n_proposals' = 0
    /\ UNCHANGED <<entry, dashvars, simvars, envvars, rsdvars, cfgvars, runvars, gidvars>>

\* utils.py 284: matches.loc[0, 'Hospital'] raises KeyError when the real
\* candidate has no row in the result
HasRow(df, label) == label \in DOMAIN df

\* the fraction of the trial that starts is reported
FractionBefore(trial, total) == <<trial, total>>

\* utils.py 331, api.py 52: (i + 1) / n_permutations, as <<numerator, denominator>>
Fraction(trial, total) == <<trial + 1, total>>

\* utils.py 284-286 and 324-331: the real candidate's hospital is appended to
\* hospitals_drew, the progress callback, when there is one, is called, and the
\* trial is over
TakeResult ==
    /\ pc = "loc"
    /\ IF HasRow(matches, 0)
       THEN /\ hospitals_drew' = Append(hospitals_drew, matches[0].Hospital)
            /\ progress' = IF progress_callback
                            THEN Append(progress, Fraction(i, n_permutations))
                            ELSE progress
            /\ i' = i + 1
            /\ pc' = "run_loop"
            /\ error' = error
       ELSE /\ pc' = "error"
            /\ error' = "KeyError"
            /\ UNCHANGED <<i, hospitals_drew, progress>>
    /\ UNCHANGED <<entry, dashvars, simvars, progress_callback, stop_clicks, earlier_result, rsdvars,
                   cfgvars, intern_probabilities, percentages, gidvars,
                   all_interns, mvars>>

\* only the last trial is counted, for every trial
DrawCountOfLast(drew, hospital) ==
    IF drew # <<>> /\ drew[Len(drew)] = hospital THEN Len(drew) ELSE 0

\* utils.py 334: pd.Series(hospitals_drew).value_counts(), for one hospital
DrawCount(drew, hospital) == Cardinality({k \in DOMAIN drew : drew[k] = hospital})

\* A percentage is kept as a fraction numerator / PercentDenominator.
PercentDenominator ==
    IF method = "dfa" THEN n_permutations ELSE n_permutations * ProbScale

\* the share is not scaled to a percentage
ShareTimesM(count) == count

\* utils.py 340: (draw_counts / n_permutations) * 100, as a numerator over
\* n_permutations
PercentTimesM(count) == 100 * count

\* utils.py 337-340: one entry for every hospital of the priority table, 0.0 for
\* a hospital that was never drawn
PercentagesOf(hospitals, drew) ==
    [k \in DOMAIN hospitals |->
        [hospital |-> hospitals[k],
         numerator |-> PercentTimesM(DrawCount(drew, hospitals[k]))]]

\* the sort is ascending
BeforeAscending(a, b) == a.numerator < b.numerator

\* entry a goes before entry b in sort_values(ascending=False)
Before(a, b) == a.numerator > b.numerator

\* utils.py 343: percentages.sort_values(ascending=False); entries of equal value
\* keep the order of the table
RECURSIVE SortValues(_)
SortValues(series) ==
    IF series = <<>> THEN <<>>
    ELSE LET first == CHOOSE k \in DOMAIN series :
                         /\ \A j \in DOMAIN series : ~Before(series[j], series[k])
                         /\ \A j \in 1..(k - 1) : Before(series[k], series[j])
                                                     \/ Before(series[j], series[k])
         IN  <<series[first]>> \o SortValues(RemoveAt(series, first))

\* utils.py 333-345: the percentages are computed, sorted and returned
Aggregate ==
    /\ pc = "run_loop"
    /\ i >= n_permutations
    /\ method = "dfa"
    /\ percentages' = SortValues(PercentagesOf(all_hospitals, hospitals_drew))
    /\ pc' = "done"
    /\ UNCHANGED <<entry, dashvars, simvars, envvars, rsdvars, error, cfgvars, i, hospitals_drew, intern_probabilities,
                   gidvars, all_interns, mvars>>

\* api.py 86: .sort_index() puts the hospitals of a row in the order of their
\* names
RECURSIVE SortIndex(_)
SortIndex(names) ==
    IF names = {} THEN <<>>
    ELSE LET first == CHOOSE h \in names :
                         \A g \in names : PositionOf(h) <= PositionOf(g)
         IN  <<first>> \o SortIndex(names \ {first})

\* api.py 89: the sum mean() takes of one hospital's column, row after row
RECURSIVE ColumnOfRows(_, _)
ColumnOfRows(rows, hospital) ==
    IF rows = <<>> THEN 0
    ELSE ColumnOfRows(SubSeq(rows, 1, Len(rows) - 1), hospital)
            + rows[Len(rows)][hospital]

\* api.py 89: 100 * pd.DataFrame(intern_probabilities).mean(), as numerators
\* over n_permutations * ProbScale
MeansOf(rows) ==
    LET index == SortIndex(DOMAIN hospital_capacities)
    IN  [k \in DOMAIN index |->
            [hospital |-> index[k],
             numerator |-> 100 * ColumnOfRows(rows, index[k])]]

\* api.py 89-90: the means are computed, sorted and returned
AggregateRsd ==
    /\ pc = "run_loop"
    /\ i >= n_permutations
    /\ method = "rsd"
    /\ percentages' = SortValues(MeansOf(intern_probabilities))
    /\ pc' = "done"
    /\ UNCHANGED <<entry, dashvars, simvars, envvars, rsdvars, error, cfgvars, i, hospitals_drew, intern_probabilities,
                   gidvars, all_interns, mvars>>

RunSimulation ==
    \/ RunStartTrial
    \/ GenerateInternsData
    \/ BuildCohort
    \/ MatchInternsToHospitals
    \/ TakeResult
    \/ Aggregate

----------------------------------------------------------------------------
(* run_single_rsd and calculate_rsd_probabilities, rsd.py 6-88 *)

\* rsd.py 48: n_simulations, 500 by default; here the bound ProbScale
n_simulations == ProbScale

\* rsd.py 62: hospitals = list(hospital_capacities.keys())
hospitals == DOMAIN hospital_capacities

\* rsd.py 34: student_preferences.loc[student_idx].tolist(), by index label
Loc(student_idx) ==
    all_interns[CHOOSE k \in DOMAIN all_interns :
                    all_interns[k].index = student_idx].row

\* rsd.py 25-26: the orders random.shuffle can leave the list in
Shuffles(indices) == Permutations_(indices)

\* rsd.py 38: if remaining_capacity[hospital] > 0
HasRoom(remaining_capacity, hospital) == remaining_capacity[hospital] > 0

\* the last hospital of the list with room is taken
LastWithRoom(student_prefs, remaining_capacity) ==
    LET open == {p \in DOMAIN student_prefs :
                    HasRoom(remaining_capacity, student_prefs[p])}
    IN  IF open = {} THEN 0 ELSE CHOOSE p \in open : \A q \in open : q <= p

\* rsd.py 37-41: the position of the first hospital of the list with room, 0
\* when the loop ends without a break
FirstWithRoom(student_prefs, remaining_capacity) ==
    LET open == {p \in DOMAIN student_prefs :
                    HasRoom(remaining_capacity, student_prefs[p])}
    IN  IF open = {} THEN 0 ELSE CHOOSE p \in open : \A q \in open : p <= q

\* the place is not taken off
NotTaken(remaining_capacity, hospital) == remaining_capacity

\* rsd.py 40: remaining_capacity[hospital] -= 1
TakePlace(remaining_capacity, hospital) ==
    [remaining_capacity EXCEPT ![hospital] = @ - 1]

\* rsd.py 32-43: the students are served in the order of student_indices
RECURSIVE Serve(_, _, _)
Serve(order, remaining_capacity, assigned) ==
    IF order = <<>>
    THEN [assignments |-> assigned, remaining_capacity |-> remaining_capacity]
    ELSE LET student_idx   == Head(order)
             student_prefs == Loc(student_idx)
             p == FirstWithRoom(student_prefs, remaining_capacity)
         IN  IF p = 0
             THEN Serve(Tail(order), remaining_capacity, assigned)
             ELSE Serve(Tail(order),
                        TakePlace(remaining_capacity, student_prefs[p]),
                        assigned @@ (student_idx :> student_prefs[p]))

\* the iteration works on the caller's dictionary itself
SharedDict(dict, local) == local

\* rsd.py 22: remaining_capacity = hospital_capacities.copy(): the caller's
\* dictionary after the iteration has changed the local one
CopiedDict(dict, local) == dict

\* rsd.py 73-76: probability_counts[student_pos][hospital_idx] += 1
Counted(counts, assigned) ==
    [x \in DOMAIN counts |->
        [h \in DOMAIN counts[x] |->
            IF x \in DOMAIN assigned /\ assigned[x] = h
            THEN counts[x][h] + 1
            ELSE counts[x][h]]]

\* rsd.py 69-76: one iteration of calculate_rsd_probabilities: run_single_rsd
\* (rsd.py 21-43) and the update of the counts
RsdIteration ==
    /\ pc = "rsd_loop"
    /\ n_simulated < n_simulations
    /\ \E order \in Shuffles(IndexSet(all_interns)) :
          LET out == Serve(order, hospital_capacities, NoMatches)
          IN  /\ student_indices' = order
              /\ assignments' = out.assignments
              /\ probability_counts' = Counted(probability_counts, out.assignments)
              /\ hospital_capacities' =
                    CopiedDict(hospital_capacities, out.remaining_capacity)
    /\ n_simulated' = n_simulated + 1
    /\ UNCHANGED <<entry, dashvars, simvars, pc, error, priorities_df, intern_data, n_permutations,
                   method, runvars, gidvars, all_interns, mvars, envvars,
                   hospital_probs, optimized_probabilities>>

\* rsd.py 79-88: the counts, read as numerators over n_simulations, are returned
\* and the locals of the last iteration are gone; api.py 84 passes the result
\* to trade_probabilities
RsdReturn ==
    /\ pc = "rsd_loop"
    /\ n_simulated >= n_simulations
    /\ hospital_probs' = probability_counts
    /\ student_indices' = <<>>
    /\ assignments' = NoMatches
    /\ pc' = "trade"
    /\ UNCHANGED <<entry, dashvars, simvars, error, cfgvars, runvars, gidvars, all_interns, mvars,
                   envvars, n_simulated, probability_counts,
                   optimized_probabilities>>

CalculateRsdProbabilities ==
    \/ RsdIteration
    \/ RsdReturn

----------------------------------------------------------------------------
(* trade_probabilities, probability_trading.py 6-101.  A probability is kept
   as a numerator: over n_simulations in hospital_probs, over ProbScale in the
   solution, of which only the points of the 1 / ProbScale grid are kept. *)

\* probability_trading.py 39, 62, 71: (n_hospitals - rank) ** 2, where
\* n_hospitals = len(hospital_capacities) (line 27)
Weight(rank) ==
    (Cardinality(DOMAIN hospital_capacities) - rank)
        * (Cardinality(DOMAIN hospital_capacities) - rank)

\* probability_trading.py 38-41 and 70-73: the sum over the student's list of
\* the probability of the listed hospital times the weight of its rank
RECURSIVE Happiness(_, _, _)
Happiness(student_probs, student_prefs, rank) ==
    IF rank >= Len(student_prefs) THEN 0
    ELSE student_probs[student_prefs[rank + 1]] * Weight(rank)
            + Happiness(student_probs, student_prefs, rank + 1)

\* probability_trading.py 45: initial_happiness[s], a numerator over n_simulations
initial_happiness(s) == Happiness(hospital_probs[s], Loc(s), 0)

\* the constraint of individual rationality is left out
AnyHappiness(s, row) == TRUE

\* probability_trading.py 68-74: happiness_expr >= initial_happiness[s]
IndividuallyRational(s, row) ==
    Happiness(row, Loc(s), 0) * n_simulations >= initial_happiness(s) * ProbScale

\* probability_trading.py 52 and 77-78: the variables of a student are in [0, 1]
\* and sum to 1
StudentRows ==
    {row \in [hospitals -> 0..ProbScale] : SumOver(hospitals, row) = ProbScale}

\* a hospital's column must stay below its capacity
WithinCapacityStrict(x) ==
    \A h \in hospitals :
        SumOver(DOMAIN x, [c \in DOMAIN x |-> x[c][h]])
            < hospital_capacities[h] * ProbScale

\* probability_trading.py 81-82: a hospital's column is at most its capacity
WithinCapacity(x) ==
    \A h \in hospitals :
        SumOver(DOMAIN x, [c \in DOMAIN x |-> x[c][h]])
            <= hospital_capacities[h] * ProbScale

\* the points that satisfy the constraints of the problem
FeasibleSolutions ==
    {x \in [IndexSet(all_interns) -> StudentRows] :
        /\ \A c \in DOMAIN x : IndividuallyRational(c, x[c])
        /\ WithinCapacity(x)}

\* probability_trading.py 58-65: the objective, the total happiness
Objective(x) ==
    SumOver(DOMAIN x, [c \in DOMAIN x |-> Happiness(x[c], Loc(c), 0)])

\* probability_trading.py 85: prob.solve() leaves a solution of largest objective
OptimalSolutions(feasible) ==
    LET values == {Objective(x) : x \in feasible}
        best   == CHOOSE v \in values : \A w \in values : w <= v
    IN  {x \in feasible : Objective(x) = best}

\* probability_trading.py 85-87: prob.status is 1 (optimal) when the problem has
\* a solution and -1 (infeasible) when it has none; the variables are bounded
Status(feasible) == IF feasible # {} THEN 1 ELSE -1

\* the status is not tested
RaisesNever(status) == FALSE

\* probability_trading.py 87: if prob.status != 1
Raises(status) == status # 1

\* probability_trading.py 91-99: the values of the variables, read into the
\* DataFrame; the variables of a problem without a solution hold no values
Extracted(feasible) ==
    IF feasible # {}
    THEN OptimalSolutions(feasible)
    ELSE {[c \in IndexSet(all_interns) |-> [h \in hospitals |-> 0]]}

\* probability_trading.py 27-101, called at api.py 84
TradeProbabilities ==
    /\ pc = "trade"
    /\ LET feasible == FeasibleSolutions
       IN  IF Raises(Status(feasible))
           THEN /\ pc' = "error"
                /\ error' = "ValueError"
                /\ optimized_probabilities' = optimized_probabilities
           ELSE /\ \E solution \in Extracted(feasible) :
                      optimized_probabilities' = solution
                /\ pc' = "done"
                /\ error' = error
    /\ UNCHANGED <<entry, dashvars, simvars, cfgvars, runvars, gidvars, all_interns, mvars, envvars,
                   n_simulated, student_indices, assignments, probability_counts,
                   hospital_probs>>

RsdAndTrade ==
    \/ CalculateRsdProbabilities
    \/ TradeProbabilities

----------------------------------------------------------------------------
(* The callers of run_simulation: app.py, simulation_component.py *)

\* the worker thread is inside run_simulation (simulation_component.py 242-249)
Running == entry = "run" /\ pc \notin {"done", "error"}

\* simulation_component.py 414-419: the stop button is clicked while the worker
\* runs; the callback resets the progress figure and disables the polling
\* interval, and writes nothing the worker reads
StopSimulation ==
    /\ Running
    /\ stop_clicks < MaxClicks
    /\ stop_clicks' = stop_clicks + 1
    /\ UNCHANGED <<entry, dashvars, simvars, pc, error, cfgvars, runvars, gidvars, all_interns, mvars,
                   progress_callback, progress, earlier_result, rsdvars>>

\* app.py 635, simulation_component.py 242: run_simulation is called again with
\* the arguments of the run that has returned; utils.py 311-322 start it afresh
RunAgain ==
    /\ entry = "run"
    /\ pc = "done"
    /\ earlier_result = <<>>
    /\ earlier_result' = percentages
    /\ pc' = "run_loop"
    /\ i' = 0
    /\ hospitals_drew' = <<>>
    /\ intern_probabilities' = <<>>
    /\ percentages' = <<>>
    /\ progress' = <<>>
    /\ n_interns' = 0
    /\ all_priorities' = <<>>
    /\ priorities' = <<>>
    /\ available_indices' = <<>>
    /\ priority_idx' = 0
    /\ simulated_interns' = NoCohort
    /\ all_interns' = NoCohort
    /\ unmatched_interns' = {}
    /\ unmatched_list' = {}
    /\ new_unmatched' = {}
    /\ current_matches' = [h \in {} |-> {}]
    /\ intern_current_priority' = [x \in {} |-> 0]
    /\ matches' = NoMatches
    /\ n_proposals' = 0
    /\ UNCHANGED <<entry, dashvars, simvars, error, cfgvars, progress_callback, stop_clicks, rsdvars>>

-----------------------------------------------------------------------------
(* The dashboard's ranked list: simulation_component.py (Dash) and app.py
   (Streamlit).  A site name and a label are sequences of characters. *)

\* the sites of the initial list; two of them contain ". " themselves
DashNames == << <<"A">>, <<"B", ".", " ", "C">>, <<"1", ".", " ", "D">>, <<"E", ".">> >>

Separator == <<".", " ">>

DigitChar == <<"0", "1", "2", "3", "4", "5", "6", "7", "8", "9">>

\* str(n) of a non-negative integer
RECURSIVE Decimal(_)
Decimal(n) ==
    IF n < 10 THEN <<DigitChar[n + 1]>>
    ELSE Decimal(n \div 10) \o <<DigitChar[(n % 10) + 1]>>

\* f"{i+1}. {hospital}"
Label(idx, hospital) == Decimal(idx + 1) \o Separator \o hospital

\* the 0-based positions at which sub occurs in h
Occurrences(h, sub) ==
    {k \in 0..(Len(h) - Len(sub)) : SubSeq(h, k + 1, k + Len(sub)) = sub}

Lowest(S) == CHOOSE k \in S : \A other \in S : k <= other
Highest(S) == CHOOSE k \in S : \A other \in S : k >= other

\* h.rfind(sub)
FindLast(h, sub) ==
    IF Occurrences(h, sub) = {} THEN -1 ELSE Highest(Occurrences(h, sub))

\* h.find(sub): the first occurrence, -1 when there is none
Find(h, sub) ==
    IF Occurrences(h, sub) = {} THEN -1 ELSE Lowest(Occurrences(h, sub))

\* h[start:] for start >= 0
SliceFrom(h, start) == SubSeq(h, start + 1, Len(h))

\* h[h.find(". ") + 2:]
StripPrefix(h) == SliceFrom(h, Find(h, Separator) + 2)

\* [f"{i+1}. {hospital}" for i, hospital in enumerate(hospitals)]
Render(names) == [k \in 1..Len(names) |-> Label(k - 1, names[k])]

\* [h[h.find(". ") + 2:] for h in hospitals]
Stripped(items) == [k \in 1..Len(items) |-> StripPrefix(items[k])]

\* start_simulation's hospital_order: the names read back from the list
HospitalOrder == Stripped(hospital_items)

\* the list with the items at 1-based positions a and b exchanged
Swapped(list, a, b) ==
    [k \in 1..Len(list) |-> IF k = a THEN list[b] ELSE IF k = b THEN list[a] ELSE list[k]]

\* list.index(x), 1-based here
IndexOf(list, x) == Lowest({k \in 1..Len(list) : list[k] = x})

\* update_hospital_order: what the callback returns for a click of `button`.
\* An item never clicked has no 'active' property (None); it is FALSE here,
\* which `True in active` and the item's rendering treat alike.
OrderAfter(button, items, flags) ==
    LET names == Stripped(items)
        current_idx == IndexOf(flags, TRUE)
    IN  IF \E k \in 1..Len(flags) : flags[k]
        THEN IF button = "move-up-btn" /\ current_idx > 1
             THEN [hospitals |-> Render(Swapped(names, current_idx, current_idx - 1)),
                   active |-> [flags EXCEPT ![current_idx] = FALSE, ![current_idx - 1] = TRUE]]
             ELSE IF button = "move-down-btn" /\ current_idx < Len(names)
             THEN [hospitals |-> Render(Swapped(names, current_idx, current_idx + 1)),
                   active |-> [flags EXCEPT ![current_idx] = FALSE, ![current_idx + 1] = TRUE]]
             ELSE [hospitals |-> Render(names), active |-> flags]
        ELSE [hospitals |-> Render(names), active |-> flags]

\* a click on an enabled move button
UpdateHospitalOrder ==
    /\ entry = "dash"
    /\ \E button \in {"move-up-btn", "move-down-btn"} :
        /\ button = "move-up-btn" => ~up_disabled
        /\ button = "move-down-btn" => ~down_disabled
        /\ hospital_items' = OrderAfter(button, hospital_items, active).hospitals
        /\ active' = OrderAfter(button, hospital_items, active).active
    /\ UNCHANGED <<entry, enginevars, up_disabled, down_disabled, sim_hospitals,
                   sim_selected, progress_queue, current_progress,
                   interval_disabled, run_disabled, results_store, run_clicks,
                   threads>>

\* a click on an item of the list
UpdateSelectedHospital ==
    /\ entry = "dash"
    /\ \E clicked_index \in 0..(Len(active) - 1) :
        /\ active' = [k \in 1..Len(active) |-> k = clicked_index + 1]
        /\ up_disabled' = (clicked_index = 0)
        /\ down_disabled' = (clicked_index = Len(active) - 1)
    /\ UNCHANGED <<entry, enginevars, hospital_items, sim_hospitals,
                   sim_selected, progress_queue, current_progress,
                   interval_disabled, run_disabled, results_store, run_clicks,
                   threads>>

\* app.py: what the move buttons do to (sim_hospitals, sim_selected)
SimOrderAfter(button, current_list, selected) ==
    LET current_idx == IndexOf(current_list, selected)
    IN  IF button = "sim_up" /\ current_idx > 1
        THEN Swapped(current_list, current_idx, current_idx - 1)
        ELSE IF button = "sim_down" /\ current_idx < Len(current_list)
        THEN Swapped(current_list, current_idx, current_idx + 1)
        ELSE current_list

\* app.py: the user picks an option of the menu; the script stores its name
SimSelect ==
    /\ entry = "dash"
    /\ \E k \in 1..Len(sim_hospitals) :
        sim_selected' = StripPrefix(Render(sim_hospitals)[k])
    /\ UNCHANGED <<entry, enginevars, dashvars, sim_hospitals>>

\* app.py: a move button; the rerun shows the menu with the moved item as its
\* default, so the selection is kept by name
SimMove ==
    /\ entry = "dash"
    /\ \E button \in {"sim_up", "sim_down"} :
        sim_hospitals' = SimOrderAfter(button, sim_hospitals, sim_selected)
    /\ UNCHANGED <<entry, enginevars, dashvars, sim_selected>>

\* app.py: the reset button; the rerun's menu returns its first option
SimReset ==
    /\ entry = "dash"
    /\ sim_hospitals' = DashNames
    /\ sim_selected' = StripPrefix(Render(DashNames)[1])
    /\ UNCHANGED <<entry, enginevars, dashvars, simvars>>

ListEdit ==
    \/ UpdateSelectedHospital
    \/ UpdateHospitalOrder
    \/ SimSelect
    \/ SimMove
    \/ SimReset

\* no value in a Store, and the progress before any message
None == [status |-> "None", run |-> 0]
NoProgress == [value |-> <<0, 1>>, run |-> 0]

-----------------------------------------------------------------------------
(* The dashboard's run: simulation_component.py 225-268, 405-454, 503-557.
   A worker thread is followed by the trials it has finished; what each trial
   computes is the engine modelled above and plays no part here. *)

\* the run button may be clicked this many times
MaxRunClicks == 2

\* the largest value of the simulations slider
MaxSlider == 2

\* progress_queue.put((status, data)); `run` records which worker put it
Message(status, done, total, run) ==
    [status |-> status, data |-> <<done, total>>, run |-> run]

\* the positions of the queue holding a results or an error message
Terminal(queue) ==
    {k \in 1..Len(queue) : queue[k].status \in {"results", "error"}}

\* update_progress on a tick of the interval: the loop takes items until the
\* queue is empty or a results/error item makes it return
Drained(queue, current) ==
    IF Terminal(queue) # {}
    THEN LET k == Lowest(Terminal(queue))
         IN  [queue |-> SubSeq(queue, k + 1, Len(queue)),
              current |-> IF k > 1
                          THEN [value |-> queue[k - 1].data, run |-> queue[k - 1].run]
                          ELSE current,
              disabled |-> TRUE,
              store |-> [status |-> queue[k].status, run |-> queue[k].run]]
    ELSE [queue |-> <<>>,
          current |-> IF queue # <<>>
                      THEN [value |-> queue[Len(queue)].data, run |-> queue[Len(queue)].run]
                      ELSE current,
          disabled |-> FALSE,
          store |-> None]

\* a click on the enabled run button: update_progress resets the progress and
\* enables the interval, toggle_buttons disables the button, and
\* start_simulation begins with the clearing of the queue
RunClicked ==
    /\ entry = "dash"
    /\ ~run_disabled
    /\ run_clicks < MaxRunClicks
    /\ run_clicks' = run_clicks + 1
    /\ current_progress' = NoProgress
    /\ interval_disabled' = FALSE
    /\ results_store' = None
    /\ run_disabled' = TRUE
    /\ threads' = Append(threads, [pc |-> "clearing", i |-> 0, n_simulations |-> 0,
                                   hospital_order |-> <<>>])
    /\ UNCHANGED <<entry, enginevars, simvars, hospital_items, active, up_disabled,
                   down_disabled, progress_queue>>

\* start_simulation: one turn of `while not progress_queue.empty()`
StartSimulationClear ==
    /\ entry = "dash"
    /\ \E run \in 1..Len(threads) :
        /\ threads[run].pc = "clearing"
        /\ progress_queue # <<>>
        /\ progress_queue' = Tail(progress_queue)
    /\ UNCHANGED <<entry, enginevars, simvars, hospital_items, active, up_disabled,
                   down_disabled, current_progress, interval_disabled,
                   run_disabled, results_store, run_clicks, threads>>

\* start_simulation: the queue was seen empty; the worker thread is started
StartSimulationThread ==
    /\ entry = "dash"
    /\ \E run \in 1..Len(threads), slider \in 1..MaxSlider :
        /\ threads[run].pc = "clearing"
        /\ progress_queue = <<>>
        /\ threads' = [threads EXCEPT ![run] =
                          [pc |-> "running", i |-> 0, n_simulations |-> slider,
                           hospital_order |-> HospitalOrder]]
    /\ UNCHANGED <<entry, enginevars, simvars, hospital_items, active, up_disabled,
                   down_disabled, progress_queue, current_progress,
                   interval_disabled, run_disabled, results_store, run_clicks>>

\* run_simulation_thread: a trial ends and the callback queues its progress
ThreadProgress ==
    /\ entry = "dash"
    /\ \E run \in 1..Len(threads) :
        /\ threads[run].pc = "running"
        /\ threads[run].i < threads[run].n_simulations
        /\ progress_queue' = Append(progress_queue,
               Message("progress", threads[run].i + 1, threads[run].n_simulations, run))
        /\ threads' = [threads EXCEPT ![run].i = @ + 1]
    /\ UNCHANGED <<entry, enginevars, simvars, hospital_items, active, up_disabled,
                   down_disabled, current_progress, interval_disabled,
                   run_disabled, results_store, run_clicks>>

\* run_simulation_thread: run_simulation has returned; the results are queued
ThreadResults ==
    /\ entry = "dash"
    /\ \E run \in 1..Len(threads) :
        /\ threads[run].pc = "running"
        /\ threads[run].i = threads[run].n_simulations
        /\ progress_queue' = Append(progress_queue,
               Message("results", threads[run].i, threads[run].n_simulations, run))
        /\ threads' = [threads EXCEPT ![run].pc = "finished"]
    /\ UNCHANGED <<entry, enginevars, simvars, hospital_items, active, up_disabled,
                   down_disabled, current_progress, interval_disabled,
                   run_disabled, results_store, run_clicks>>

\* run_simulation_thread: run_simulation has raised; the error is queued
ThreadError ==
    /\ entry = "dash"
    /\ \E run \in 1..Len(threads) :
        /\ threads[run].pc = "running"
        /\ threads[run].i < threads[run].n_simulations
        /\ progress_queue' = Append(progress_queue,
               Message("error", threads[run].i, threads[run].n_simulations, run))
        /\ threads' = [threads EXCEPT ![run].pc = "finished"]
    /\ UNCHANGED <<entry, enginevars, simvars, hospital_items, active, up_disabled,
                   down_disabled, current_progress, interval_disabled,
                   run_disabled, results_store, run_clicks>>

\* a click on the enabled stop button: update_progress disables the interval
\* and empties the store, toggle_buttons enables the run button; no thread
\* and no queue is touched
StopClicked ==
    /\ entry = "dash"
    /\ run_disabled
    /\ interval_disabled' = TRUE
    /\ results_store' = None
    /\ run_disabled' = FALSE
    /\ UNCHANGED <<entry, enginevars, simvars, hospital_items, active, up_disabled,
                   down_disabled, progress_queue, current_progress, run_clicks,
                   threads>>

\* a tick of the enabled interval: update_progress drains the queue; a store
\* that receives data makes toggle_buttons enable the run button
PollQueue ==
    /\ entry = "dash"
    /\ ~interval_disabled
    /\ LET out == Drained(progress_queue, current_progress)
       IN  /\ progress_queue' = out.queue
           /\ current_progress' = out.current
           /\ interval_disabled' = out.disabled
           /\ results_store' = out.store
           /\ run_disabled' = IF out.store # None THEN FALSE ELSE run_disabled
    /\ UNCHANGED <<entry, enginevars, simvars, hospital_items, active, up_disabled,
                   down_disabled, run_clicks, threads>>

DashboardRun ==
    \/ RunClicked
    \/ StartSimulationClear
    \/ StartSimulationThread
    \/ ThreadProgress
    \/ ThreadResults
    \/ ThreadError
    \/ StopClicked
    \/ PollQueue

----------------------------------------------------------------------------
(* Specifications *)

\* the locals of generate_interns_data on entry (utils.py 73-94)
GidEntry(n) ==
    /\ n_interns = n
    /\ all_priorities = <<>>
    /\ priorities = <<>>
    /\ available_indices = <<>>
    /\ priority_idx = 0
    /\ simulated_interns = NoCohort

MatcherIdle ==
    /\ all_interns = NoCohort
    /\ unmatched_interns = {}
    /\ unmatched_list = {}
    /\ new_unmatched = {}
    /\ current_matches = [h \in {} |-> {}]
    /\ intern_current_priority = [x \in {} |-> 0]
    /\ matches = NoMatches
    /\ n_proposals = 0

EnvIdle ==
    /\ progress_callback = FALSE
    /\ progress = <<>>
    /\ stop_clicks = 0
    /\ earlier_result = <<>>

NoMatrix == [x \in {} |-> 0]

\* the dashboard is not open
DashIdle ==
    /\ hospital_items = <<>>
    /\ active = <<>>
    /\ up_disabled = TRUE
    /\ down_disabled = TRUE
    /\ progress_queue = <<>>
    /\ current_progress = NoProgress
    /\ interval_disabled = TRUE
    /\ run_disabled = FALSE
    /\ results_store = None
    /\ run_clicks = 0
    /\ threads = <<>>
    /\ sim_hospitals = <<>>
    /\ sim_selected = <<>>

RsdIdle ==
    /\ n_simulated = 0
    /\ student_indices = <<>>
    /\ assignments = NoMatches
    /\ probability_counts = NoMatrix
    /\ hospital_probs = NoMatrix
    /\ optimized_probabilities = NoMatrix

RunIdle ==
    /\ i = 0
    /\ hospitals_drew = <<>>
    /\ intern_probabilities = <<>>
    /\ percentages = <<>>

\* generate_interns_data(df, n) called on its own
InitSampler ==
    /\ entry = "sampler"
    /\ pc = "gid_interns"
    /\ error = "none"
    /\ priorities_df \in Tables(Hospitals, MaxRanks)
    /\ hospital_capacities = [h \in Range(priorities_df.names) |-> 0]
    /\ intern_data = <<>>
    /\ n_permutations = 0
    /\ method = "dfa"
    /\ \E n \in 0..MaxPeers : GidEntry(n)
    /\ MatcherIdle
    /\ RunIdle
    /\ EnvIdle
    /\ RsdIdle
    /\ DashIdle

SpecSampler == InitSampler /\ [][GenerateInternsData]_vars

\* the cohorts of k rows over the hospitals `names`: row 0 is any list of
\* hospitals, as long as there are hospitals; the other rows are permutations of
\* the hospitals, as the sampler returns them
Cohorts(names, k) ==
    LET n == Cardinality(names)
    IN  {DataFrame(rows) : rows \in
            {r \in [1..k -> [1..n -> names]] :
                \A j \in 2..k : r[j] \in Permutations_(names)}}

\* the largest cohort tried on n hospitals
MaxRows(n) == IF n = Len(Hospitals) THEN MaxInterns ELSE MaxInternsFew

\* match_interns_to_hospitals(interns_data, hospital_capacities) called on its
\* own, after its locals are set up (utils.py 172-179)
InitDA ==
    /\ entry = "match"
    /\ pc = "m_while"
    /\ error = "none"
    /\ \E n \in 1..Len(Hospitals) :
          /\ priorities_df = [names |-> SubSeq(Hospitals, 1, n), ncols |-> n,
                              counts |-> [h \in 1..n |-> [r \in 1..n |-> 0]]]
          /\ \E k \in 1..MaxRows(n) :
                all_interns \in Cohorts(Range(SubSeq(Hospitals, 1, n)), k)
    /\ hospital_capacities \in [Range(priorities_df.names) -> 0..MaxCap]
    /\ intern_data = <<>>
    /\ n_permutations = 0
    /\ method = "dfa"
    /\ GidEntry(0)
    /\ RunIdle
    /\ EnvIdle
    /\ RsdIdle
    /\ DashIdle
    /\ unmatched_interns = IndexSet(all_interns)
    /\ unmatched_list = {}
    /\ new_unmatched = {}
    /\ current_matches = [h \in DOMAIN hospital_capacities |-> {}]
    /\ intern_current_priority = [x \in IndexSet(all_interns) |-> 0]
    /\ matches = NoMatches
    /\ n_proposals = 0

SpecDA == InitDA /\ [][MatchInternsToHospitals]_vars

\* run_simulation(priorities_data, acceptance_data, year, intern_data,
\* n_permutations) after utils.py 311-319: the year's tables are looked up
Init ==
    /\ entry = "run"
    /\ pc = "run_loop"
    /\ error = "none"
    /\ priorities_df \in Tables(RunHospitals, RunMaxRanks)
    /\ hospital_capacities \in [Range(priorities_df.names) -> 0..RunMaxCap]
    /\ intern_data \in [1..priorities_df.ncols -> Range(priorities_df.names)]
    /\ n_permutations \in 1..MaxTrials
    /\ method \in {"dfa", "rsd"}
    /\ GidEntry(0)
    /\ MatcherIdle
    /\ RunIdle
    /\ progress_callback \in BOOLEAN
    /\ progress = <<>>
    /\ stop_clicks = 0
    /\ earlier_result = <<>>
    /\ RsdIdle
    /\ DashIdle

Spec == Init /\ [][RunSimulation]_vars

\* the deferred-acceptance run, with the fairness of a sequential program: a
\* step that can be taken is taken
FairSpecDA == SpecDA /\ WF_vars(MatchInternsToHospitals)

\* calculate_rsd_probabilities(preferences_df, hospital_capacities) called on a
\* cohort, after rsd.py 62-66, and trade_probabilities called on its result, as
\* api.py 79-84 chains them
InitRsd ==
    /\ entry = "rsd"
    /\ pc = "rsd_loop"
    /\ error = "none"
    /\ \E n \in 1..Len(RunHospitals) :
          /\ priorities_df = [names |-> SubSeq(RunHospitals, 1, n), ncols |-> n,
                              counts |-> [h \in 1..n |-> [r \in 1..n |-> 0]]]
          /\ \E k \in 1..MaxInternsFew :
                all_interns \in Cohorts(Range(SubSeq(RunHospitals, 1, n)), k)
    /\ hospital_capacities \in [Range(priorities_df.names) -> 0..MaxCap]
    /\ intern_data = <<>>
    /\ n_permutations = 0
    /\ method = "rsd"
    /\ GidEntry(0)
    /\ RunIdle
    /\ EnvIdle
    /\ unmatched_interns = {}
    /\ unmatched_list = {}
    /\ new_unmatched = {}
    /\ current_matches = [h \in {} |-> {}]
    /\ intern_current_priority = [x \in {} |-> 0]
    /\ matches = NoMatches
    /\ n_proposals = 0
    /\ n_simulated = 0
    /\ student_indices = <<>>
    /\ assignments = NoMatches
    /\ probability_counts =
          [x \in IndexSet(all_interns) |-> [h \in hospitals |-> 0]]
    /\ hospital_probs = NoMatrix
    /\ optimized_probabilities = NoMatrix
    /\ DashIdle

SpecRsd == InitRsd /\ [][RsdAndTrade]_vars

\* the RSD functions called on their own, or a run of the driver
InitRsdRun == InitRsd \/ Init
SpecRsdRun == InitRsdRun /\ [][RsdAndTrade \/ RunSimulation]_vars

\* the table of a year in which every candidate ranks the hospitals in the
\* order of the table: column r has all its weight on hospital r
DiagonalTable(names, weight) ==
    [names  |-> names,
     ncols  |-> Len(names),
     counts |-> [h \in 1..Len(names) |->
                    [r \in 1..Len(names) |-> IF h = r THEN weight ELSE 0]]]

\* run_simulation on three hospitals of capacity 1, the diagonal table of
\* weight 10 and the candidate list A, B, C, with the DA method
InitS1 ==
    /\ entry = "run"
    /\ pc = "run_loop"
    /\ error = "none"
    /\ priorities_df = DiagonalTable(Hospitals, 10)
    /\ hospital_capacities = [h \in Range(Hospitals) |-> 1]
    /\ intern_data = Hospitals
    /\ n_permutations \in 1..MaxTrials
    /\ method = "dfa"
    /\ GidEntry(0)
    /\ MatcherIdle
    /\ RunIdle
    /\ EnvIdle
    /\ RsdIdle
    /\ DashIdle

\* a run of the driver on any input or on that scenario
InitScenario == Init \/ InitS1
SpecScenario == InitScenario /\ [][RunSimulation]_vars

\* the rows of probabilities of the real candidate: numerators over ProbScale
\* that sum to 1
ProbabilityRows(names) ==
    {row \in [names -> 0..ProbScale] : SumOver(names, row) = ProbScale}

\* the aggregation of run_simulation entered with the outcomes of the trials
\* already collected (utils.py 333, api.py 89)
InitAggregate ==
    /\ entry = "aggregate"
    /\ pc = "run_loop"
    /\ error = "none"
    /\ \E n \in 1..Len(Hospitals) :
          priorities_df = [names |-> SubSeq(Hospitals, 1, n), ncols |-> n,
                           counts |-> [h \in 1..n |-> [r \in 1..n |-> 0]]]
    /\ hospital_capacities = [h \in Range(priorities_df.names) |-> 1]
    /\ intern_data = priorities_df.names
    /\ n_permutations \in 1..MaxTrials
    /\ method \in {"dfa", "rsd"}
    /\ i = n_permutations
    /\ IF method = "dfa"
       THEN /\ hospitals_drew \in [1..n_permutations -> Range(priorities_df.names)]
            /\ intern_probabilities = <<>>
       ELSE /\ hospitals_drew = <<>>
            /\ intern_probabilities \in
                  [1..n_permutations -> ProbabilityRows(Range(priorities_df.names))]
    /\ percentages = <<>>
    /\ GidEntry(0)
    /\ MatcherIdle
    /\ EnvIdle
    /\ RsdIdle
    /\ DashIdle

\* the aggregation on its own, or at the end of a run of the driver
InitAggregateRun == InitAggregate \/ Init
SpecAggregate == InitAggregateRun /\ [][RunSimulation \/ AggregateRsd]_vars

\* the matcher called on its own or by the driver
InitMatch == InitDA \/ Init
SpecMatch == InitMatch /\ [][RunSimulation]_vars

\* the dashboard as it is served: the layout of create_simulation_layout and
\* the first run of the Streamlit script, whose menu returns its first option
InitDashboard ==
    /\ entry = "dash"
    /\ pc = "idle"
    /\ error = "none"
    /\ priorities_df = [names |-> <<>>, ncols |-> 0, counts |-> <<>>]
    /\ hospital_capacities = [h \in {} |-> 0]
    /\ intern_data = <<>>
    /\ n_permutations = 0
    /\ method = "dfa"
    /\ RunIdle
    /\ GidEntry(0)
    /\ MatcherIdle
    /\ EnvIdle
    /\ RsdIdle
    /\ hospital_items = Render(DashNames)
    /\ active = [k \in 1..Len(DashNames) |-> FALSE]
    /\ up_disabled = TRUE
    /\ down_disabled = TRUE
    /\ progress_queue = <<>>
    /\ current_progress = NoProgress
    /\ interval_disabled = TRUE
    /\ run_disabled = FALSE
    /\ results_store = None
    /\ run_clicks = 0
    /\ threads = <<>>
    /\ sim_hospitals = DashNames
    /\ sim_selected = StripPrefix(Render(DashNames)[1])

SpecList == InitDashboard /\ [][ListEdit]_vars

\* runs started, stopped and polled from the dashboard
SpecDash == InitDashboard /\ [][DashboardRun]_vars

\* a run started from the dashboard, whose stop button may be clicked
SpecStop == Init /\ [][RunSimulation \/ StopSimulation]_vars

\* a run followed by a second run on the same arguments
SpecTwoRuns == Init /\ [][RunSimulation \/ RunAgain]_vars

----------------------------------------------------------------------------
(* Properties *)

Interns == IndexSet(all_interns)

\* the interns the returned assignment gives to the hospital
AssignedTo(hospital) == {x \in DOMAIN matches : matches[x].Hospital = hospital}

\* the list of intern x
ListOf(x) == all_interns[x + 1].row

IsPermutation(list, names) ==
    /\ Len(list) = Cardinality(names)
    /\ Range(list) = names

\* C1: deferred acceptance respects the capacities: after every proposal step no
\* hospital holds more interns than its capacity, and the returned assignment
\* gives no hospital more interns than its capacity.
CapacityRespected ==
    /\ \A h \in DOMAIN current_matches :
          Cardinality(current_matches[h]) <= hospital_capacities[h]
    /\ pc = "done" =>
          \A h \in DOMAIN hospital_capacities :
              Cardinality(AssignedTo(h)) <= hospital_capacities[h]

\* a returned assignment in which a hospital with places is full and has turned
\* away an intern that proposed to it
CapacityWitness ==
    /\ pc = "done"
    /\ \E h \in DOMAIN hospital_capacities :
          /\ hospital_capacities[h] >= 1
          /\ Cardinality(AssignedTo(h)) = hospital_capacities[h]
          /\ \E x \in Interns :
                /\ x \notin AssignedTo(h)
                /\ \E p \in 1..intern_current_priority[x] : ListOf(x)[p] = h

\* the precondition of C2: the cohort fits and every list is a permutation
CohortFits ==
    /\ entry = "match"
    /\ Len(all_interns) <= total_capacity
    /\ \A x \in Interns : IsPermutation(ListOf(x), DOMAIN hospital_capacities)

\* C2: when the cohort is no larger than the total capacity and every list is a
\* permutation of the hospitals, no intern exhausts the list without being held,
\* and the returned assignment gives every intern a hospital.
EveryInternAssigned ==
    CohortFits =>
        /\ \A x \in Interns :
              intern_current_priority[x] >= NumColumns => HeldAt(x) # {}
        /\ pc = "done" => DOMAIN matches = Interns

\* a full cohort (as many interns as places) is assigned, one intern to the last
\* hospital of the list
EveryInternAssignedWitness ==
    /\ CohortFits
    /\ pc = "done"
    /\ Len(all_interns) = total_capacity
    /\ Len(all_interns) >= 2
    /\ \E x \in DOMAIN matches : matches[x].Priority = NumColumns

\* an intern that was skipped for an exhausted list: the cursor is past the end,
\* no hospital holds the intern and the intern waits in no unmatched set
Dropped(x) ==
    /\ intern_current_priority[x] >= NumColumns
    /\ HeldAt(x) = {}
    /\ x \notin unmatched_interns \cup unmatched_list \cup new_unmatched

\* a step moves no cursor, or is the proposal of one intern, whose cursor grows
\* by one
CursorStep ==
    \/ /\ intern_current_priority' = intern_current_priority
       /\ n_proposals' = n_proposals
    \/ /\ n_proposals' = n_proposals + 1
       /\ \E x \in Interns :
             /\ intern_current_priority'[x] = intern_current_priority[x] + 1
             /\ \A y \in Interns \ {x} :
                   intern_current_priority'[y] = intern_current_priority[y]

\* an intern whose cursor is past the end of the list and that is outside the
\* unmatched set stays outside it
NeverReEnters ==
    \A x \in Interns :
        (intern_current_priority[x] >= NumColumns /\ x \notin unmatched_interns)
            => x \notin unmatched_interns'

\* C3: deferred acceptance terminates: a cursor only grows, by exactly one per
\* proposal; an intern whose cursor has passed the end of the list never
\* re-enters the unmatched set, and once skipped for the exhausted list it
\* is never held or queued again; a run makes at most K * N proposals; and the
\* run reaches its return.
DATerminates ==
    /\ [][CursorStep]_vars
    /\ [][NeverReEnters]_vars
    /\ [][\A x \in Interns : Dropped(x) => Dropped(x)']_vars
    /\ [](n_proposals <= Len(all_interns) * NumColumns)
    /\ <>(pc = "done")

\* a run that made all K * N proposals and dropped an intern
DATerminatesWitness ==
    /\ pc = "done"
    /\ Len(all_interns) >= 2
    /\ n_proposals = Len(all_interns) * NumColumns
    /\ \E x \in Interns : Dropped(x)
    /\ DOMAIN matches # {}

\* the 0-based list position intern x ends at: that of the assigned hospital, or
\* the end of the list
FinalPosition(x) ==
    IF x \in DOMAIN matches THEN matches[x].Priority - 1 ELSE NumColumns

\* C4: the returned matching is stable with respect to rank priority: every
\* hospital an intern lists before the position the intern ends at (any position
\* when unassigned) is full, and every intern it holds proposed to it at a list
\* position no worse than that one.
RankStable ==
    (entry = "match" /\ pc = "done") =>
        \A x \in Interns : \A r \in 0..(FinalPosition(x) - 1) :
            LET s == Iloc(x, r)
            IN  /\ Cardinality(AssignedTo(s)) = hospital_capacities[s]
                /\ \A y \in AssignedTo(s) : matches[y].Priority - 1 <= r

\* an intern ends below the first choice although the cohort fits, and the
\* first choice has places
RankStableWitness ==
    /\ CohortFits
    /\ pc = "done"
    /\ \E x \in DOMAIN matches :
          /\ matches[x].Priority >= 2
          /\ hospital_capacities[Iloc(x, 0)] >= 1

\* the matcher has returned its DataFrame
Matched == pc = "loc" \/ (entry = "match" /\ pc = "done")

\* C5: every intern the matcher reports as assigned is reported with the
\* hospital at position Priority (1-based) of the intern's own list, and the
\* hospital recorded for the real candidate in a trial is in the candidate's list.
ReportedSiteIsListed ==
    /\ Matched =>
          \A x \in DOMAIN matches :
              /\ x \in Interns
              /\ matches[x].Priority \in 1..NumColumns
              /\ ListOf(x)[matches[x].Priority] = matches[x].Hospital
    /\ \A k \in DOMAIN hospitals_drew : hospitals_drew[k] \in Range(intern_data)

\* the real candidate was recorded with a hospital below the first choice
ReportedSiteWitness ==
    /\ entry = "run"
    /\ hospitals_drew # <<>>
    /\ hospitals_drew[Len(hospitals_drew)] # intern_data[1]
    /\ Len(all_interns) >= 2
\* C6: every list the sampler produces is a permutation of the table's
\* hospitals, whatever the numbers of hospitals and of rank columns: the call
\* returns, and each returned row has every hospital exactly once.
SamplerYieldsPermutations ==
    entry = "sampler" =>
        /\ pc # "error"
        /\ pc = "done" =>
              /\ Len(simulated_interns) = n_interns
              /\ \A k \in DOMAIN simulated_interns :
                    IsPermutation(simulated_interns[k].row, Range(hospital_names))

\* the lists as the loops build them, before the DataFrame is made of them:
\* a finished list is a permutation, a list under construction has no repeats
ListsBuiltArePermutations ==
    /\ \A k \in DOMAIN all_priorities :
          IsPermutation(all_priorities[k], Range(hospital_names))
    /\ \A a, b \in DOMAIN priorities : a # b => priorities[a] # priorities[b]
    /\ pc = "gid_remaining" /\ available_indices = <<>> =>
          IsPermutation(priorities, Range(hospital_names))

\* a cohort has been built for the trial in progress
InTrial == pc \in {"m_while", "m_for", "loc"}

\* the cohort is the real candidate's list at index 0 followed by the sampled
\* peers at indices 1, 2, ...
CohortLayout ==
    /\ \A k \in DOMAIN all_interns : all_interns[k].index = k - 1
    /\ all_interns[1].row = intern_data
    /\ Len(all_interns) = Len(simulated_interns) + 1
    /\ \A k \in DOMAIN simulated_interns :
          all_interns[k + 1].row = simulated_interns[k].row

\* C7: in the DA path and in the RSD+Trade path the cohort of a trial has exactly
\* TotalCapacity rows with the indices 0..K-1, row 0 is the real candidate's
\* list and the other rows are the sampled peers.
CohortHasTotalCapacityRows ==
    (entry = "run" /\ InTrial) =>
        /\ Len(all_interns) = total_capacity
        /\ CohortLayout

\* what the code builds: the layout holds, and the cohort has TotalCapacity rows
\* when TotalCapacity is at least 1, and the real candidate alone otherwise
CohortAsBuilt ==
    (entry = "run" /\ InTrial) =>
        /\ CohortLayout
        /\ Len(all_interns) = IF total_capacity >= 1 THEN total_capacity ELSE 1

\* the sum of the numerators of a Series
RECURSIVE SumNumerators(_)
SumNumerators(series) ==
    IF series = <<>> THEN 0
    ELSE series[1].numerator + SumNumerators(Tail(series))

\* C8: the result of run_simulation has exactly one entry for every hospital of
\* the priority table, 0 for a hospital the real candidate was never assigned
\* to, and the entries are in non-increasing order.
ResultVectorComplete ==
    (entry = "run" /\ pc = "done") =>
        /\ Len(percentages) = Len(all_hospitals)
        /\ \A k \in DOMAIN all_hospitals :
              \E j \in DOMAIN percentages : percentages[j].hospital = all_hospitals[k]
        /\ \A j \in DOMAIN percentages :
              (method = "dfa" /\ percentages[j].hospital \notin Range(hospitals_drew))
                  => percentages[j].numerator = 0
        /\ \A j \in 1..(Len(percentages) - 1) :
              percentages[j].numerator >= percentages[j + 1].numerator

\* a DA run whose result lists the second hospital of the table first and keeps
\* a zero for the first one
ResultVectorWitness ==
    /\ entry = "run"
    /\ pc = "done"
    /\ method = "dfa"
    /\ Len(percentages) = 2
    /\ percentages[1].hospital = all_hospitals[2]
    /\ percentages[2].numerator = 0

\* C9: in the DA path the tallies sum to the number of trials in which the real
\* candidate was assigned; each entry of the result is 100 * tally / M; the
\* result sums to at most 100, and to 100 when every trial assigned the candidate.
TalliesSum ==
    (entry = "run" /\ method = "dfa") =>
        /\ Len(hospitals_drew) = i
        /\ SumOver(Range(all_hospitals),
                   [h \in Range(all_hospitals) |-> DrawCount(hospitals_drew, h)])
              = Len(hospitals_drew)
        /\ pc = "done" =>
              /\ \A j \in DOMAIN percentages :
                    percentages[j].numerator * n_permutations =
                        100 * DrawCount(hospitals_drew, percentages[j].hospital)
                            * PercentDenominator
              /\ SumNumerators(percentages) <= 100 * PercentDenominator
              /\ Len(hospitals_drew) = n_permutations =>
                    SumNumerators(percentages) = 100 * PercentDenominator

\* a DA run of two trials that assigned the real candidate to two hospitals
TalliesSumWitness ==
    /\ entry = "run"
    /\ method = "dfa"
    /\ pc = "done"
    /\ n_permutations = 2
    /\ hospitals_drew[1] # hospitals_drew[2]
    /\ percentages[1].numerator = 50 * PercentDenominator

\* C10: when the matcher reports no hospital for the real candidate, the trial
\* still completes and adds to no tally, and the run does not fail.
UnassignedCandidateTolerated ==
    [][(entry = "run" /\ pc = "loc" /\ ~HasRow(matches, 0)) =>
          /\ pc' = "run_loop"
          /\ i' = i + 1
          /\ hospitals_drew' = hospitals_drew
          /\ error' = "none"]_vars

\* the first part of C10 by itself: an intern that exhausted the list without
\* being held has no row in the matcher's result
ExhaustedHasNoRow ==
    Matched => \A x \in Interns : Dropped(x) => ~HasRow(matches, x)

\* the input run_simulation must accept: the candidate's list is a permutation
\* of the year's hospitals and the total capacity is at least 1
ValidInput ==
    /\ IsPermutation(intern_data, Range(hospital_names))
    /\ total_capacity >= 1

\* C11: invalid input is rejected before any trial starts: on a candidate list
\* that is not a permutation of the year's hospitals, or a total capacity below
\* 1, run_simulation starts no trial: it samples no peer, builds no cohort and
\* runs no matching.
InvalidInputRejected ==
    (entry = "run" /\ ~ValidInput) =>
        /\ pc \in {"run_loop", "error"}
        /\ i = 0
        /\ all_interns = NoCohort
        /\ n_proposals = 0

\* C12: with a progress callback the driver calls it exactly once after each
\* completed trial and before the next one starts, M times in a completed run;
\* the k-th call reports k / M, so the fractions grow strictly, lie in (0, 1] and
\* the last one is 1.
ProgressReported ==
    (entry = "run" /\ progress_callback) =>
        /\ Len(progress) = i
        /\ \A k \in DOMAIN progress :
              /\ progress[k] = <<k, n_permutations>>
              /\ 0 < progress[k][1]
              /\ progress[k][1] <= progress[k][2]
        /\ \A k \in 1..(Len(progress) - 1) :
              progress[k][1] * progress[k + 1][2] < progress[k + 1][1] * progress[k][2]
        /\ pc = "done" =>
              /\ Len(progress) = n_permutations
              /\ progress[Len(progress)][1] = progress[Len(progress)][2]

\* a completed run of two trials that reported 1/2 and then 2/2
ProgressReportedWitness ==
    /\ entry = "run"
    /\ progress_callback
    /\ pc = "done"
    /\ n_permutations = 2
    /\ progress = <<<<1, 2>>, <<2, 2>>>>

\* C13: once the stop button has been clicked during a run, the click is seen
\* before the next trial starts and no further trial is started.
StopObserved ==
    [][(entry = "run" /\ stop_clicks > 0 /\ pc = "run_loop") =>
          pc' # "gid_interns"]_vars

\* C18: two runs of run_simulation on the same tables, candidate list and M
\* return identical results.
RunsReproducible ==
    (entry = "run" /\ pc = "done" /\ earlier_result # <<>>) =>
        percentages = earlier_result

\* the interns an iteration of RSD gave the hospital to
RsdAssignedTo(hospital) ==
    {c \in DOMAIN assignments : assignments[c] = hospital}

\* the sums of a row and of a column of a matrix intern -> hospital -> number
RowSum(matrix, c) == SumOver(DOMAIN matrix[c], matrix[c])
ColumnSum(matrix, h) == SumOver(DOMAIN matrix, [c \in DOMAIN matrix |-> matrix[c][h]])

\* C14: an iteration of RSD assigns every candidate at most one hospital and
\* every hospital at most its capacity, so in the matrix accumulated over the
\* iterations every row sums to at most 1 and the column of a hospital to at
\* most its capacity (the counts are numerators over the number of iterations).
RsdWithinCapacity ==
    entry = "rsd" =>
        /\ DOMAIN assignments \subseteq Interns
        /\ \A h \in hospitals :
              Cardinality(RsdAssignedTo(h)) <= hospital_capacities[h]
        /\ \A c \in DOMAIN probability_counts :
              RowSum(probability_counts, c) <= n_simulated
        /\ \A h \in hospitals :
              ColumnSum(probability_counts, h) <= hospital_capacities[h] * n_simulated
        /\ hospital_probs # NoMatrix =>
              /\ \A c \in DOMAIN hospital_probs :
                    RowSum(hospital_probs, c) <= n_simulations
              /\ \A h \in hospitals :
                    ColumnSum(hospital_probs, h)
                        <= hospital_capacities[h] * n_simulations

\* a returned matrix in which a hospital with places was full in every iteration
\* and went to different candidates
RsdWithinCapacityWitness ==
    /\ entry = "rsd"
    /\ hospital_probs # NoMatrix
    /\ \E h \in hospitals :
          /\ hospital_capacities[h] >= 1
          /\ ColumnSum(hospital_probs, h) = hospital_capacities[h] * n_simulations
          /\ \E c \in DOMAIN hospital_probs :
                /\ hospital_probs[c][h] > 0
                /\ hospital_probs[c][h] < n_simulations

\* the places hospital h has left at the turn of the k-th student of the order
RemainingAt(k, h) ==
    hospital_capacities[h]
        - Cardinality({j \in 1..(k - 1) : student_indices[j] \in RsdAssignedTo(h)})

\* the cohort fits the places and every list is a permutation of the hospitals
RsdCohortFits ==
    /\ Len(all_interns) <= total_capacity
    /\ \A x \in Interns : IsPermutation(ListOf(x), hospitals)

\* C15: in an iteration of RSD every candidate, in the drawn order, is assigned
\* the first hospital of the own list that has a place left at the candidate's
\* turn, and stays unassigned only when no hospital of the list has a place
\* left; when the cohort fits and the lists are permutations, every candidate
\* is assigned.
SerialDictatorship ==
    (entry = "rsd" /\ pc = "rsd_loop" /\ n_simulated >= 1) =>
        /\ Range(student_indices) = Interns
        /\ \A k \in DOMAIN student_indices :
              LET c == student_indices[k]
              IN  IF c \in DOMAIN assignments
                  THEN \E p \in DOMAIN ListOf(c) :
                          /\ ListOf(c)[p] = assignments[c]
                          /\ RemainingAt(k, ListOf(c)[p]) > 0
                          /\ \A q \in 1..(p - 1) : RemainingAt(k, ListOf(c)[q]) = 0
                  ELSE \A p \in DOMAIN ListOf(c) : RemainingAt(k, ListOf(c)[p]) = 0
        /\ RsdCohortFits => DOMAIN assignments = Interns

\* an iteration in which a candidate found the first choice, which has places,
\* full and took the second, and another candidate found every choice full
SerialDictatorshipWitness ==
    /\ entry = "rsd"
    /\ pc = "rsd_loop"
    /\ n_simulated >= 1
    /\ \E c \in DOMAIN assignments :
          /\ assignments[c] # ListOf(c)[1]
          /\ hospital_capacities[ListOf(c)[1]] >= 1
    /\ \E c \in Interns : c \notin DOMAIN assignments

\* the 0-based position of hospital s in the list of candidate c
PositionIn(c, s) == (CHOOSE p \in DOMAIN ListOf(c) : ListOf(c)[p] = s) - 1

\* the squared-rank utility of a row of probabilities for candidate c
Utility(row, c) ==
    SumOver(hospitals,
            [s \in hospitals |->
                row[s] * (Cardinality(hospitals) - PositionIn(c, s))
                       * (Cardinality(hospitals) - PositionIn(c, s))])

\* the candidates whose list is a permutation of the hospitals
Ranking == {c \in Interns : IsPermutation(ListOf(c), hospitals)}

\* C16: the matrix trade_probabilities returns has rows that sum to 1, columns
\* that sum to at most the capacity, entries in [0, 1], and gives every
\* candidate a squared-rank utility at least that of the RSD matrix, so the
\* total utility is at least the RSD total.
TradedMatrixRational ==
    (entry = "rsd" /\ pc = "done") =>
        /\ DOMAIN optimized_probabilities = Interns
        /\ \A c \in Interns :
              /\ RowSum(optimized_probabilities, c) = ProbScale
              /\ \A s \in hospitals : optimized_probabilities[c][s] \in 0..ProbScale
        /\ \A s \in hospitals :
              ColumnSum(optimized_probabilities, s) <= hospital_capacities[s] * ProbScale
        /\ \A c \in Ranking :
              Utility(optimized_probabilities[c], c) * n_simulations
                  >= Utility(hospital_probs[c], c) * ProbScale
        /\ SumOver(Ranking, [c \in Ranking |->
                       Utility(optimized_probabilities[c], c)]) * n_simulations
              >= SumOver(Ranking, [c \in Ranking |->
                            Utility(hospital_probs[c], c)]) * ProbScale

\* a returned matrix for candidates that all rank every hospital, two of them
\* with the same first choice, which has a single place: each of the two holds
\* a part of it, and the constraint of individual rationality binds for both
TradedMatrixWitness ==
    /\ entry = "rsd"
    /\ pc = "done"
    /\ Ranking = Interns
    /\ \E c, d \in Interns :
          /\ c # d
          /\ ListOf(c)[1] = ListOf(d)[1]
          /\ hospital_capacities[ListOf(c)[1]] = 1
          /\ optimized_probabilities[c][ListOf(c)[1]] \in 1..(ProbScale - 1)
          /\ optimized_probabilities[d][ListOf(c)[1]] \in 1..(ProbScale - 1)
          /\ Utility(optimized_probabilities[c], c) * n_simulations
                = Utility(hospital_probs[c], c) * ProbScale
          /\ Utility(optimized_probabilities[d], d) * n_simulations
                = Utility(hospital_probs[d], d) * ProbScale

InputsReadOnly ==
    [][/\ hospital_capacities' = hospital_capacities
       /\ priorities_df' = priorities_df
       /\ intern_data' = intern_data]_vars

\* every RSD iteration has run, the last one gave away every place, and the
\* capacity map still shows the places
InputsReadOnlyWitness ==
    /\ entry = "rsd"
    /\ pc = "rsd_loop"
    /\ n_simulated = n_simulations
    /\ total_capacity >= 2
    /\ Cardinality(DOMAIN assignments) = total_capacity

\* scenario S1: hospitals A, B, C of capacity 1, the table that gives every peer
\* the list A, B, C, and the real candidate's list A, B, C, in the DA path
ScenarioS1 ==
    /\ entry = "run"
    /\ method = "dfa"
    /\ priorities_df = DiagonalTable(Hospitals, 10)
    /\ hospital_capacities = [h \in Range(Hospitals) |-> 1]
    /\ intern_data = Hospitals

ScenarioS2 ==
    /\ entry = "run"
    /\ method = "dfa"
    /\ priorities_df = DiagonalTable(RunHospitals, 1)
    /\ hospital_capacities = [h \in Range(RunHospitals) |-> 1]
    /\ intern_data = RunHospitals

\* the first round of a trial of S2, when one of the two holds A and the other
\* is about to propose to it
S2TieAtA ==
    /\ ScenarioS2
    /\ pc = "m_for"
    /\ Cardinality(unmatched_list) = 1
    /\ Cardinality(current_matches["A"]) = 1
    /\ \A x \in unmatched_list : intern_current_priority[x] = 0

\* C21: in scenario S2 the peer ranks A first and B second too; every DA trial
\* ends with one of the two candidates at A with rank 1 and the other at B with
\* rank 2; and at the tie at A, whoever proposed first, both the real candidate
\* and the peer can be the one who keeps A.
S2TieByLottery ==
    ScenarioS2 =>
        /\ \A k \in DOMAIN simulated_interns : simulated_interns[k].row = RunHospitals
        /\ pc = "loc" =>
              /\ DOMAIN matches = {0, 1}
              /\ \E w \in {0, 1} :
                    /\ matches[w] = [Hospital |-> "A", Priority |-> 1]
                    /\ matches[1 - w] = [Hospital |-> "B", Priority |-> 2]
        /\ S2TieAtA =>
              \A w \in {0, 1} :
                  ENABLED (MatchPropose /\ current_matches'["A"] = {<<w, 0>>})

\* a run of S2 in which the real candidate kept A in one trial and was sent to
\* B in the next
S2TieByLotteryWitness ==
    /\ ScenarioS2
    /\ pc = "done"
    /\ hospitals_drew = <<"A", "B">>

\* the real candidate (row 0 of the cohort) ranks first a hospital of capacity 0
FirstChoiceHasNoPlace ==
    /\ all_interns # NoCohort
    /\ ListOf(0) # <<>>
    /\ hospital_capacities[ListOf(0)[1]] = 0

\* C22: when the real candidate's first choice has capacity 0, that hospital
\* never holds the candidate, the matcher never reports the candidate there, no
\* trial records it; and when the cohort fits and the candidate's list is a
\* permutation, the matcher reports the candidate at a later position of the list.
FirstChoiceClosed ==
    /\ FirstChoiceHasNoPlace =>
          /\ ListOf(0)[1] \notin HeldAt(0)
          /\ Matched =>
                /\ 0 \in DOMAIN matches => matches[0].Hospital # ListOf(0)[1]
                /\ (/\ Len(all_interns) <= total_capacity
                    /\ IsPermutation(ListOf(0), DOMAIN hospital_capacities)) =>
                      /\ 0 \in DOMAIN matches
                      /\ matches[0].Priority \in 2..NumColumns
                      /\ matches[0].Hospital = ListOf(0)[matches[0].Priority]
    /\ (entry = "run" /\ hospital_capacities[intern_data[1]] = 0) =>
          \A k \in DOMAIN hospitals_drew : hospitals_drew[k] # intern_data[1]

\* the real candidate and a peer rank the same three hospitals in the same
\* order, the first has no place, and the real candidate lost the lottery at
\* the second and was assigned the third
FirstChoiceClosedWitness ==
    /\ FirstChoiceHasNoPlace
    /\ Matched
    /\ Len(all_interns) >= 2
    /\ Len(all_interns) <= total_capacity
    /\ IsPermutation(ListOf(0), DOMAIN hospital_capacities)
    /\ ListOf(1) = ListOf(0)
    /\ 0 \in DOMAIN matches
    /\ matches[0].Priority = 3

\* the intern whose proposal a step of the matcher is
Proposer == CHOOSE x \in Interns : intern_current_priority'[x] # intern_current_priority[x]

\* the pairs of `held` with a rank better than rank g, and with rank g
BetterThan(held, g) == {m \in held : m[2] < g}
RankGroup(held, g) == {m \in held : m[2] = g}

\* a proposal that puts its hospital over capacity leaves the hospital with
\* exactly its capacity, taken from the holders in ascending order of rank
AcceptanceByRank ==
    n_proposals' = n_proposals + 1 =>
        LET x      == Proposer
            r      == intern_current_priority[x]
            h      == Iloc(x, r)
            before == current_matches[h] \cup {<<x, r>>}
            after  == current_matches'[h]
            cap    == hospital_capacities[h]
        IN  IF Cardinality(before) > cap
            THEN /\ after \subseteq before
                 /\ Cardinality(after) = cap
                 /\ \A a \in after : \A b \in before \ after : a[2] <= b[2]
                 /\ \A g \in {m[2] : m \in before} :
                       /\ Cardinality(BetterThan(before, g))
                             + Cardinality(RankGroup(before, g)) <= cap
                                => RankGroup(before, g) \subseteq after
                       /\ Cardinality(BetterThan(before, g)) >= cap
                                => RankGroup(before, g) \cap after = {}
            ELSE after = before

\* C23: when a hospital is over capacity its holders are accepted in ascending
\* order of the rank at which they proposed: afterwards it holds exactly its
\* capacity, no rejected intern proposed at a better rank than an accepted one,
\* a rank group that fits is accepted whole, and only the group that straddles
\* the capacity is drawn from.
AcceptedInRankOrder == [][AcceptanceByRank]_vars

\* a hospital with two places holds interns of two ranks, and an intern that
\* proposed at the worse of the two ranks lost the lottery for the last place
AcceptedInRankOrderWitness ==
    /\ entry = "match"
    /\ pc = "m_for"
    /\ \E h \in DOMAIN current_matches :
          /\ hospital_capacities[h] = 2
          /\ Cardinality(current_matches[h]) = 2
          /\ \E a, b \in current_matches[h] :
                /\ a[2] < b[2]
                /\ \E x \in new_unmatched :
                      /\ intern_current_priority[x] = b[2] + 1
                      /\ Iloc(x, b[2]) = h

\* the interns that wait for a proposal: the unmatched set at the start of a
\* round, and inside a round the part of the list not yet visited and the set
\* collected for the next round
Waiting ==
    IF pc = "m_for" THEN unmatched_list \cup new_unmatched ELSE unmatched_interns

\* the pairs of intern x in the lists of the hospitals
PairsOf(x) ==
    UNION {{<<h, m>> : m \in {n \in current_matches[h] : n[1] = x}} :
              h \in DOMAIN current_matches}

\* every intern is held by at most one hospital, once, and is not both held and
\* waiting; an intern that is neither has exhausted the list
NobodyLostOrDuplicated ==
    pc \in {"m_while", "m_for"} =>
        \A x \in Interns :
            /\ Cardinality(PairsOf(x)) <= 1
            /\ ~(PairsOf(x) # {} /\ x \in Waiting)
            /\ (PairsOf(x) = {} /\ x \notin Waiting) =>
                  intern_current_priority[x] >= NumColumns

\* a resolution keeps every holder at the hospital or sends it to the unmatched
\* set of the next round, and touches no other hospital
ResolutionKeepsEveryone ==
    n_proposals' = n_proposals + 1 =>
        LET x      == Proposer
            r      == intern_current_priority[x]
            h      == Iloc(x, r)
            before == current_matches[h] \cup {<<x, r>>}
        IN  /\ \A m \in before :
                  \/ m \in current_matches'[h] /\ m[1] \notin new_unmatched'
                  \/ m \notin current_matches'[h] /\ m[1] \in new_unmatched'
            /\ new_unmatched \subseteq new_unmatched'
            /\ \A g \in DOMAIN current_matches \ {h} :
                  current_matches'[g] = current_matches[g]

\* C24: over-capacity resolution loses and duplicates nobody: every holder of
\* the hospital before a resolution is afterwards still held by it or in the
\* unmatched set for the next round, the holders of the rank groups the
\* acceptance loop never reached included; and at every point of the run an
\* intern is held by at most one hospital and is never both held and unmatched.
NoCandidateLost ==
    /\ []NobodyLostOrDuplicated
    /\ [][ResolutionKeepsEveryone]_vars

\* an intern was appended to a full hospital whose holders all proposed at a
\* better rank: its rank group was never reached by the acceptance loop, and it
\* waits for the next round
NoCandidateLostWitness ==
    /\ entry = "match"
    /\ pc = "m_for"
    /\ \E x \in new_unmatched :
          LET h == Iloc(x, intern_current_priority[x] - 1)
          IN  /\ hospital_capacities[h] >= 1
              /\ Cardinality(current_matches[h]) = hospital_capacities[h]
              /\ \A m \in current_matches[h] : m[2] < intern_current_priority[x] - 1

\* the resolution of one hospital as the round structure states it: the holders
\* are accepted in ascending order of rank, a group that fits is accepted whole,
\* the group that does not fit is drawn from, and everybody else is rejected
ResolvedOnce(held, cap) ==
    IF Cardinality(held) <= cap
    THEN {[accepted |-> held, rejected |-> {}]}
    ELSE {[accepted |-> A, rejected |-> {m[1] : m \in held \ A}] :
             A \in {B \in SUBSET held :
                       /\ Cardinality(B) = cap
                       /\ \A a \in B : \A b \in held \ B : a[2] <= b[2]}}

\* a round as the round structure states it: every unmatched intern with a
\* hospital left proposes, then every hospital over capacity is resolved once
RoundStructure(matched, cursor, unmatched) ==
    LET acting   == {c \in unmatched : cursor[c] < NumColumns}
        sites    == DOMAIN matched
        proposed == [s \in sites |->
                        matched[s] \cup {<<c, cursor[c]>> : c \in
                            {d \in acting : Iloc(d, cursor[d]) = s}}]
        moved    == [c \in DOMAIN cursor |->
                        IF c \in acting THEN cursor[c] + 1 ELSE cursor[c]]
        results  == UNION {ResolvedOnce(proposed[s], hospital_capacities[s]) :
                              s \in sites}
    IN  {[current_matches |-> [s \in sites |-> o[s].accepted],
          new_unmatched |-> UNION {o[s].rejected : s \in sites},
          intern_current_priority |-> moved] :
            o \in {f \in [sites -> results] :
                      \A s \in sites :
                          f[s] \in ResolvedOnce(proposed[s], hospital_capacities[s])}}

\* C25: resolving a hospital right after each proposal is equivalent to the
\* round structure: from every state in which a round starts, the for loop of
\* the code and the round of the round structure have the same set of possible
\* results (held lists, unmatched set of the next round, cursors).
RoundsEquivalent ==
    (pc = "m_while" /\ unmatched_interns # {}) =>
        ForLoop(unmatched_interns, current_matches, {}, intern_current_priority)
            = RoundStructure(current_matches, intern_current_priority,
                             unmatched_interns)

\* a later round starts in which the interns rejected so far are about to
\* propose to the same hospital, which has one place; either can end up with it
RoundsEquivalentWitness ==
    /\ entry = "match"
    /\ pc = "m_while"
    /\ n_proposals >= 3
    /\ Cardinality(unmatched_interns) = 2
    /\ \A x \in unmatched_interns : intern_current_priority[x] < NumColumns
    /\ \E h \in DOMAIN hospital_capacities :
          /\ hospital_capacities[h] = 1
          /\ \A x \in unmatched_interns : Iloc(x, intern_current_priority[x]) = h
    /\ Cardinality(ForLoop(unmatched_interns, current_matches, {},
                           intern_current_priority)) = 2

\* the count of hospital index h in rank column r (0-based) of the table
CountAt(h, r) == priorities_df.counts[h][r + 1]

\* the sampler is about to draw for rank column priority_idx
AboutToDraw ==
    /\ pc = "gid_columns"
    /\ priority_idx < n_priorities
    /\ available_indices # <<>>

\* no available hospital has a positive count in the column about to be drawn
NoMassOnAvailable ==
    /\ AboutToDraw
    /\ \A h \in Range(available_indices) : CountAt(h, priority_idx) = 0

\* when no available hospital has a positive count, each of them can be drawn
EveryAvailableCanBeDrawn ==
    NoMassOnAvailable =>
        \A k \in DOMAIN available_indices :
            ENABLED (GidDraw /\ priorities' =
                        Append(priorities, hospital_names[available_indices[k]]))

\* a draw for a rank column takes an available hospital, and one with a
\* positive count in the column when an available hospital has one
DrawnFromAvailable ==
    (AboutToDraw /\ priority_idx' = priority_idx + 1) =>
        \E h \in Range(available_indices) :
            /\ priorities' = Append(priorities, hospital_names[h])
            /\ Range(available_indices') = Range(available_indices) \ {h}
            /\ (\E a \in Range(available_indices) : CountAt(a, priority_idx) > 0)
                  => CountAt(h, priority_idx) > 0

\* C26: at each position the sampler draws only from the still-available
\* hospitals; when an available hospital has a positive count in the rank column
\* the drawn hospital has one; when the column is all zeros or has no mass on
\* the available hospitals, every available hospital can be drawn.
SamplerSupport ==
    /\ []EveryAvailableCanBeDrawn
    /\ [][DrawnFromAvailable]_vars

\* the column just drawn has a positive total, all of it on a hospital taken
\* earlier, and a hospital with count 0 was drawn while another was available
SamplerSupportWitness ==
    /\ entry = "sampler"
    /\ pc = "gid_columns"
    /\ priority_idx >= 2
    /\ available_indices # <<>>
    /\ ColumnTotalPositive(priority_idx - 1)
    /\ \E h \in 1..n_hospitals :
          /\ hospital_names[h] = priorities[Len(priorities)]
          /\ CountAt(h, priority_idx - 1) = 0

\* the outcomes of the trials in another order
Reordered(outcomes, p) == [k \in DOMAIN outcomes |-> outcomes[p[k]]]

RsdMatrixFeasible ==
    (entry = "rsd" /\ hospital_probs # NoMatrix /\ RsdCohortFits) =>
        /\ \A c \in Interns :
              /\ RowSum(hospital_probs, c) = n_simulations
              /\ \A h \in hospitals : hospital_probs[c][h] \in 0..n_simulations
              /\ Utility(hospital_probs[c], c) = initial_happiness(c)
        /\ \A h \in hospitals :
              ColumnSum(hospital_probs, h) <= hospital_capacities[h] * n_simulations
        /\ hospital_probs \in FeasibleSolutions
        /\ Status(FeasibleSolutions) = 1
        /\ pc # "error"
        /\ pc = "done" => optimized_probabilities \in FeasibleSolutions

\* the trader returned for a cohort that fills every place, in which a
\* candidate was assigned different hospitals in different iterations
RsdMatrixFeasibleWitness ==
    /\ entry = "rsd"
    /\ pc = "done"
    /\ RsdCohortFits
    /\ Len(all_interns) = total_capacity
    /\ Len(all_interns) >= 2
    /\ \E c \in Interns : \E h \in hospitals :
          hospital_probs[c][h] \in 1..(n_simulations - 1)

-----------------------------------------------------------------------------
(* The ranked list under editing *)

\* the largest 0-based position whose label is checked; beyond 9 the number
\* has two digits
MaxIndex == 11

IsPermutationOf(list, names) ==
    /\ Len(list) = Len(names)
    /\ \A k \in 1..Len(names) :
        Cardinality({j \in 1..Len(list) : list[j] = names[k]}) = 1

NeighbourSwap(before, after, from, to) ==
    /\ to \in 1..Len(before)
    /\ to \in {from - 1, from + 1}
    /\ after = Swapped(before, from, to)

ListWellFormed ==
    /\ IsPermutationOf(HospitalOrder, DashNames)
    /\ hospital_items = Render(HospitalOrder)
    /\ Cardinality({k \in 1..Len(active) : active[k]}) <= 1
    /\ IsPermutationOf(sim_hospitals, DashNames)
    /\ Cardinality({k \in 1..Len(sim_hospitals) : sim_hospitals[k] = sim_selected}) = 1
    /\ \A idx \in 0..MaxIndex : \A k \in 1..Len(DashNames) :
        StripPrefix(Label(idx, DashNames[k])) = DashNames[k]

MovesAtTheEnds ==
    /\ active[1] =>
        OrderAfter("move-up-btn", hospital_items, active) =
            [hospitals |-> hospital_items, active |-> active]
    /\ active[Len(active)] =>
        OrderAfter("move-down-btn", hospital_items, active) =
            [hospitals |-> hospital_items, active |-> active]
    /\ sim_hospitals[1] = sim_selected =>
        SimOrderAfter("sim_up", sim_hospitals, sim_selected) = sim_hospitals
    /\ sim_hospitals[Len(sim_hospitals)] = sim_selected =>
        SimOrderAfter("sim_down", sim_hospitals, sim_selected) = sim_hospitals

MoveSwapsNeighbours ==
    /\ hospital_items' # hospital_items =>
        \E from \in 1..Len(active), to \in 1..Len(active) :
            /\ active[from]
            /\ NeighbourSwap(HospitalOrder, HospitalOrder', from, to)
            /\ active'[to]
            /\ HospitalOrder'[to] = HospitalOrder[from]
    /\ sim_hospitals' # sim_hospitals =>
        \/ /\ sim_hospitals' = DashNames
           /\ sim_selected' = DashNames[1]
        \/ /\ sim_selected' = sim_selected
           /\ \E to \in 1..Len(sim_hospitals) :
                NeighbourSwap(sim_hospitals, sim_hospitals',
                              IndexOf(sim_hospitals, sim_selected), to)

\* C30: under any sequence of select, move-up and move-down the names read
\* back from the list are a permutation of the initial sites, at most one
\* item is selected, a label's numbering prefix strips back to the name even
\* when the name contains ". ", move-up on the first item and move-down on
\* the last change nothing, and every change of the list swaps the selected
\* item with a neighbour and leaves it selected.
ListStaysPermutation ==
    /\ [](ListWellFormed /\ MovesAtTheEnds)
    /\ [][MoveSwapsNeighbours]_vars

\* a name containing ". " is selected away from its initial place in both
\* lists, and in the Dash list it now stands first
ListStaysPermutationWitness ==
    /\ entry = "dash"
    /\ active[1]
    /\ HospitalOrder[1] = DashNames[2]
    /\ sim_selected = DashNames[3]
    /\ sim_hospitals[Len(sim_hospitals)] = DashNames[3]
    /\ sim_hospitals[1] = DashNames[2]

-----------------------------------------------------------------------------
(* The dashboard's queue under a second start *)

\* C29: the progress kept for the figure and the results in the store were
\* put on the queue by the worker of the latest run: no message of an
\* earlier run's worker is taken as the progress or the result of a later
\* run, whatever the interleaving of the workers, the clearing of the queue
\* and the polling.
OnlyOwnRunShown ==
    /\ current_progress.run \in {0, run_clicks}
    /\ results_store.run \in {0, run_clicks}

====
